---------------------------- MODULE Spec2Model ----------------------------
(***************************************************************************)
(* Model of the portfolio frontend's data layer:                           *)
(*   - services/api.ts      resource services and handleApiError           *)
(*   - hooks/usePortfolio.ts the data-fetching hooks                       *)
(*   - components/Skills.tsx the client-side skills filter                 *)
(***************************************************************************)
EXTENDS Integers, Sequences, FiniteSets, TLC

VARIABLES
    \* --- handleApiError (services/api.ts) ---
    thrown,            \* the value handed to handleApiError
    handled,           \* what the call produced (NotYet before the call)
    \* --- resource services getAll (services/api.ts) ---
    call,              \* the service call made: [api, filters]
    issuedUrl,         \* the request handed to apiClient.get
    nCalls,            \* number of apiClient.get invocations so far
    \* --- Skills.filteredSkills (components/Skills) ---
    skills,            \* the `skills` list the component holds
    selectedCategory,  \* useState('all')
    showAll,           \* the showAll prop
    filtered,          \* the memoised filteredSkills
    \* --- data-fetching hook (hooks/usePortfolio.ts) ---
    env,               \* what the service layer can reject with
    hook,              \* which of the eight hooks this instance is
    state,             \* the hook's {data, loading, error}
    dep,               \* the dependency the current fetch callback closes over
    pc,                \* "rendered" before the mount effect ran, "mounted" after
    inflight,          \* requests issued and not yet settled
    issued,            \* number of requests issued so far
    rejections,        \* fetch promises that rejected out of the hook
    last,              \* the last hook step taken (history)
    \* --- the App: Header, Hero, About, Skills and their hook instances ---
    app,               \* per component with a hook: [pc, state]
    net,               \* requests in flight, per component: [live, orphan]
    sent,              \* number of requests the App's hooks issued so far
    step,              \* the last App step taken (history)
    \* --- a component that calls a hook on every render ---
    caller,            \* how it builds the hook's argument: "literal" or "stable"
    \* --- apiClient (services/api.ts): one service call through the client ---
    wire,              \* the request configs handed to the transport, in order
    reply,             \* what the transport answered
    settled,           \* how the service call's promise settled
    console,           \* the console entries written, in order
    \* --- useMultipleApiCalls (hooks/usePortfolio.ts) ---
    multi,             \* loading, error, the batches started and the last step
    \* --- Header (components/Header.tsx) ---
    header,            \* menu flag, active section, page layout and scroll position
    \* --- Hero (rotating title) ---
    hero               \* currentText, whether the timer runs, the last step

errVars    == <<thrown, handled>>
queryVars  == <<call, issuedUrl, nCalls>>
filterVars == <<skills, selectedCategory, showAll, filtered>>
hookVars   == <<env, hook, state, dep, pc, inflight, issued, rejections, last>>
appVars    == <<app, net, sent, step>>
callerVars == <<caller>>
clientVars == <<wire, reply, settled, console>>
uiVars     == <<multi, header, hero>>
vars       == <<thrown, handled, call, issuedUrl, nCalls,
                skills, selectedCategory, showAll, filtered,
                env, hook, state, dep, pc, inflight, issued, rejections, last,
                app, net, sent, step, caller,
                wire, reply, settled, console,
                multi, header, hero>>

(***************************************************************************)
(* JavaScript values.  Every value is a record [t, v]: t is the type tag   *)
(* and v the payload ("" where the type has none; "T"/"F" for booleans).   *)
(***************************************************************************)
Undefined == [t |-> "undefined", v |-> ""]
Null      == [t |-> "null",      v |-> ""]
Str(s)    == [t |-> "string",    v |-> s]
Bool(b)   == [t |-> "boolean",   v |-> IF b THEN "T" ELSE "F"]
Obj(s)    == [t |-> "object",    v |-> s]

\* JavaScript truthiness, as tested by `if (x)`.
Truthy(x) ==
    CASE x.t = "undefined" -> FALSE
      [] x.t = "null"      -> FALSE
      [] x.t = "string"    -> x.v # ""
      [] x.t = "boolean"   -> x.v = "T"
      [] OTHER             -> TRUE

\* Boolean.prototype.toString
BooleanToString(x) == IF x.v = "T" THEN "true" ELSE "false"

(***************************************************************************)
(* handleApiError                                                          *)
(***************************************************************************)
FallbackMessage == "An unexpected error occurred"

\* The message-like values a field of a thrown value may hold.
FieldVals(text) == {Undefined, Str(""), Str(text), Obj(text)}

\* A thrown value.  t = "null"/"undefined" are the two values with no
\* properties; every other value (an Error, an AxiosError, a thrown string
\* or number) is "object" with the properties the handler reads.
MkThrown(t, hasResponse, hasData, dm, dd, m) ==
    [t |-> t, hasResponse |-> hasResponse, hasData |-> hasData,
     dataMessage |-> dm, dataDetail |-> dd, message |-> m]

ThrownValues ==
    { MkThrown(t, FALSE, FALSE, Undefined, Undefined, Undefined) :
        t \in {"null", "undefined"} }
    \cup
    { MkThrown("object", r, FALSE, Undefined, Undefined, m) :
        r \in BOOLEAN, m \in FieldVals("Network Error") }
    \cup
    { MkThrown("object", TRUE, TRUE, dm, dd, m) :
        dm \in FieldVals("server message"),
        dd \in FieldVals("server detail"),
        m  \in FieldVals("Request failed with status code 500") }

\* error.response?.data?.message and error.response?.data?.detail
ResponseDataMessage(e) ==
    IF e.hasResponse /\ e.hasData THEN e.dataMessage ELSE Undefined
ResponseDataDetail(e) ==
    IF e.hasResponse /\ e.hasData THEN e.dataDetail ELSE Undefined

Returned(x) == [threw |-> FALSE, value |-> x]
TypeError   == [threw |-> TRUE,  value |-> Str("TypeError")]
NotYet      == [threw |-> FALSE, value |-> [t |-> "pending", v |-> ""]]

\* Mutant: the error's own message is returned whatever it is, and the
\* fallback string is never used.
handleApiError_NoFallback(error) ==
    IF error.t \in {"null", "undefined"} THEN TypeError
    ELSE IF Truthy(ResponseDataMessage(error))
         THEN Returned(ResponseDataMessage(error))
    ELSE IF Truthy(ResponseDataDetail(error))
         THEN Returned(ResponseDataDetail(error))
    ELSE Returned(error.message)

\* `error.response` on null or undefined raises a TypeError: the first
\* property access is not optional-chained.
handleApiError(error) ==
    IF error.t \in {"null", "undefined"} THEN TypeError
    ELSE IF Truthy(ResponseDataMessage(error))
         THEN Returned(ResponseDataMessage(error))
    ELSE IF Truthy(ResponseDataDetail(error))
         THEN Returned(ResponseDataDetail(error))
    ELSE IF Truthy(error.message) THEN Returned(error.message)
    ELSE Returned(Str(FallbackMessage))

(***************************************************************************)
(* Resource services: getAll builds a URLSearchParams and issues one GET.  *)
(***************************************************************************)
\* application/x-www-form-urlencoded serialisation of one character
\* (URLSearchParams.toString): space becomes "+", reserved characters are
\* percent-encoded, everything else is kept.
FormEncodeChar(c) ==
    CASE c = " " -> "+"
      [] c = "+" -> "%2B"
      [] c = "&" -> "%26"
      [] c = "=" -> "%3D"
      [] c = "#" -> "%23"
      [] c = "%" -> "%25"
      [] OTHER   -> c

RECURSIVE FormEncode(_)
FormEncode(s) ==
    IF Len(s) = 0 THEN ""
    ELSE FormEncodeChar(SubSeq(s, 1, 1)) \o FormEncode(SubSeq(s, 2, Len(s)))

\* URLSearchParams: an ordered list of <<name, value>> pairs.
NewURLSearchParams == << >>
ParamsAppend(params, name, value) == Append(params, <<name, value>>)

RECURSIVE ParamsToString(_)
ParamsToString(params) ==
    IF Len(params) = 0 THEN ""
    ELSE FormEncode(params[1][1]) \o "=" \o FormEncode(params[1][2])
         \o (IF Len(params) > 1 THEN "&" ELSE "")
         \o ParamsToString(Tail(params))

\* The arguments of a getAll call.  hasFilters is FALSE when the filters
\* object itself is undefined; fields a service does not take are Undefined.
MkArgs(hasFilters, category, featured, published, technology, current) ==
    [hasFilters |-> hasFilters, category |-> category, featured |-> featured,
     published |-> published, technology |-> technology, current |-> current]

NoArgs == MkArgs(FALSE, Undefined, Undefined, Undefined, Undefined, Undefined)

\* filters?.field
Opt(args, field) == IF args.hasFilters THEN args[field] ELSE Undefined

\* Mutant: a truthiness test instead of `!== undefined`, which drops false.
AppendIfDefined_Truthy(params, name, x) ==
    IF Truthy(x) THEN ParamsAppend(params, name, BooleanToString(x)) ELSE params

\* if (x !== undefined) params.append(name, x.toString())
AppendIfDefined(params, name, x) ==
    IF x # Undefined THEN ParamsAppend(params, name, BooleanToString(x)) ELSE params

\* if (x) params.append(name, x)
AppendIfTruthy(params, name, x) ==
    IF Truthy(x) THEN ParamsAppend(params, name, x.v) ELSE params

skillsApi_getAll(args) ==
    LET p1 == AppendIfTruthy(NewURLSearchParams, "category", Opt(args, "category"))
        p2 == AppendIfDefined(p1, "featured", Opt(args, "featured"))
    IN  "/skills/?" \o ParamsToString(p2)

projectsApi_getAll(args) ==
    LET p1 == AppendIfDefined(NewURLSearchParams, "featured", Opt(args, "featured"))
        p2 == AppendIfDefined(p1, "published", Opt(args, "published"))
        p3 == AppendIfTruthy(p2, "technology", Opt(args, "technology"))
    IN  "/projects/?" \o ParamsToString(p3)

experienceApi_getAll(args) ==
    "/experience/?" \o
    ParamsToString(AppendIfDefined(NewURLSearchParams, "current", args.current))

educationApi_getAll(args) ==
    "/education/?" \o
    ParamsToString(AppendIfDefined(NewURLSearchParams, "current", args.current))

contactApi_get == "/contact/"
aboutApi_get == "/about/"
portfolioApi_getSummary == "/summary/"
portfolioApi_getStats == "/summary/stats/"

\* Filter values the type declarations admit.
OptBool == {Undefined, Bool(TRUE), Bool(FALSE)}
CategoryVals == {Undefined, Str(""), Str("programming"), Str("c#")}
TechnologyVals == {Undefined, Str(""), Str("React"), Str("C++ & Qt")}

SkillFilterArgs ==
    {NoArgs} \cup
    { MkArgs(TRUE, c, f, Undefined, Undefined, Undefined) :
        c \in CategoryVals, f \in OptBool }
ProjectFilterArgs ==
    {NoArgs} \cup
    { MkArgs(TRUE, Undefined, f, p, t, Undefined) :
        f \in OptBool, p \in OptBool, t \in TechnologyVals }
CurrentArgs ==
    { MkArgs(FALSE, Undefined, Undefined, Undefined, Undefined, c) : c \in OptBool }

(***************************************************************************)
(* Skills component: the filteredSkills memo.                              *)
(***************************************************************************)
MaxSkills == 3

SkillCategories == {"programming", "design"}
SkillRecords == [category : SkillCategories, is_featured : BOOLEAN]

\* `skills` as the component sees it: null, or a list of Skill records.
NullSkills == [isNull |-> TRUE, list |-> << >>]
SkillsList(l) == [isNull |-> FALSE, list |-> l]
SkillLists == UNION { [1..n -> SkillRecords] : n \in 0..MaxSkills }

\* Array.prototype.filter with the category predicate / the featured predicate
RECURSIVE FilterByCategory(_, _)
FilterByCategory(list, c) ==
    IF list = << >> THEN << >>
    ELSE (IF Head(list).category = c THEN <<Head(list)>> ELSE << >>)
         \o FilterByCategory(Tail(list), c)

\* Mutant: the featured stage keeps only the first featured skill.
RECURSIVE FilterFeatured_FirstOnly(_)
FilterFeatured_FirstOnly(list) ==
    IF list = << >> THEN << >>
    ELSE IF Head(list).is_featured THEN <<Head(list)>>
         ELSE FilterFeatured_FirstOnly(Tail(list))

RECURSIVE FilterFeatured(_)
FilterFeatured(list) ==
    IF list = << >> THEN << >>
    ELSE (IF Head(list).is_featured THEN <<Head(list)>> ELSE << >>)
         \o FilterFeatured(Tail(list))

\* Mutant: the featured-only restriction is applied when showAll is set.
filteredSkills_ShowAllInverted(sk, category, all) ==
    IF sk.isNull THEN << >>
    ELSE LET byCat == IF category # "all"
                      THEN FilterByCategory(sk.list, category) ELSE sk.list
         IN  IF all THEN FilterFeatured(byCat) ELSE byCat

filteredSkills(sk, category, all) ==
    IF sk.isNull THEN << >>
    ELSE LET byCat == IF category # "all"
                      THEN FilterByCategory(sk.list, category) ELSE sk.list
         IN  IF ~all THEN FilterFeatured(byCat) ELSE byCat

\* The category buttons: 'all' plus the distinct categories of `skills`.
categories(sk) ==
    IF sk.isNull THEN {} 
    ELSE {"all"} \cup { sk.list[i].category : i \in 1..Len(sk.list) }

(***************************************************************************)
(* Data-fetching hooks.  The eight hooks share one shape: useState with    *)
(* {data: null, loading: true, error: null}, a memoised async fetch        *)
(* callback, an effect that runs it, and refetch = the callback.           *)
(***************************************************************************)
MaxRequests == 3   \* requests one hook instance issues in a run
MaxRefs == 2       \* distinct filter-object identities a caller passes

HookNames ==
    {"useSkills", "useProjects", "useExperience", "useEducation",
     "useContact", "useAbout", "usePortfolioSummary", "usePortfolioStats"}

\* Response bodies the backend may return.
DataVals == {Obj("d1"), Obj("d2")}

\* Filter objects the callers of useSkills / useProjects pass.
HookSkillFilters ==
    { MkArgs(TRUE, Str("programming"), Bool(TRUE), Undefined, Undefined, Undefined),
      MkArgs(TRUE, Undefined, Bool(FALSE), Undefined, Undefined, Undefined) }
HookProjectFilters ==
    { MkArgs(TRUE, Undefined, Bool(TRUE), Bool(TRUE), Undefined, Undefined),
      MkArgs(TRUE, Undefined, Undefined, Undefined, Str("React"), Undefined) }

\* A dependency value: ref is the identity of a filter object (0 for
\* undefined and for primitives), args its content.
MkDep(ref, args) == [ref |-> ref, args |-> args]

HookDeps(h) ==
    CASE h = "useSkills" ->
           {MkDep(0, NoArgs)} \cup
           { MkDep(r, a) : r \in 1..MaxRefs, a \in HookSkillFilters }
      [] h = "useProjects" ->
           {MkDep(0, NoArgs)} \cup
           { MkDep(r, a) : r \in 1..MaxRefs, a \in HookProjectFilters }
      [] h \in {"useExperience", "useEducation"} ->
           { MkDep(0, a) : a \in CurrentArgs }
      [] OTHER -> {MkDep(0, NoArgs)}

\* Mutant: dependencies are compared by content.
ObjectIs_DeepEqual(a, b) == a.args = b.args

\* Object.is, the comparison React applies to a dependency array entry.
ObjectIs(a, b) ==
    IF a.ref # 0 \/ b.ref # 0 THEN a.ref = b.ref ELSE a.args = b.args

\* The request the hook's service call issues.
ServiceUrl(h, d) ==
    CASE h = "useSkills"           -> skillsApi_getAll(d.args)
      [] h = "useProjects"         -> projectsApi_getAll(d.args)
      [] h = "useExperience"       -> experienceApi_getAll(d.args)
      [] h = "useEducation"        -> educationApi_getAll(d.args)
      [] h = "useContact"          -> contactApi_get
      [] h = "useAbout"            -> aboutApi_get
      [] h = "usePortfolioSummary" -> portfolioApi_getSummary
      [] OTHER                     -> portfolioApi_getStats

\* What the awaited service call can reject with.  Under "axios" it is what
\* the API client produces: an Error object with a non-empty message and
\* possibly a response whose body the server chose.  Under "any" it is any
\* JavaScript value, as `catch (error)` admits.
AxiosErrors ==
    { e \in ThrownValues :
        /\ e.t = "object"
        /\ e.message.t = "string" /\ e.message.v # ""
        /\ e.dataDetail \in {Undefined, Str("server detail")} }
AnyThrown ==
    AxiosErrors \cup { e \in ThrownValues : ~e.hasResponse }
Throwable(e) == IF e = "axios" THEN AxiosErrors ELSE AnyThrown

InitialState == [data |-> Null, loading |-> TRUE, error |-> Null]

\* Mutant: the loading flag is raised but the old error is kept.
BeginFetch_KeepError(prev) == [prev EXCEPT !.loading = TRUE]

\* Mutant: the error is cleared but the loading flag is not raised.
BeginFetch_NoLoading(prev) == [prev EXCEPT !.error = Null]

\* setState(prev => ({ ...prev, loading: true, error: null }))
BeginFetch(prev) == [prev EXCEPT !.loading = TRUE, !.error = Null]

\* setState({ data, loading: false, error: null })
OnSuccess(d) == [data |-> d, loading |-> FALSE, error |-> Null]

\* Mutant: the failure handler forgets to lower the loading flag.
OnFailure_StillLoading(msg) == [data |-> Null, loading |-> TRUE, error |-> msg]

\* Mutant: the failure handler stores the error next to a result.
OnFailure_WithData(msg) == [data |-> Obj("d1"), loading |-> FALSE, error |-> msg]

\* setState({ data: null, loading: false, error: handleApiError(error) })
OnFailure(msg) == [data |-> Null, loading |-> FALSE, error |-> msg]

\* History kept with each in-flight request (not program state):
\*   nullAtStart  data was null in the state the cycle started from
\*   nullSince    data has been null in every state since the cycle started
\*   quiet        no other request of the hook has succeeded since then
\*   loadingSeen  a state with loading = true was observed in the cycle
MkRequest(seq, url, before, after) ==
    [seq |-> seq, url |-> url,
     nullAtStart |-> before.data = Null, nullSince |-> after.data = Null,
     quiet |-> TRUE, loadingSeen |-> after.loading]

Observe(reqs, st, succeeded) ==
    { [r EXCEPT !.nullSince = @ /\ st.data = Null,
                !.quiet = @ /\ ~succeeded,
                !.loadingSeen = @ \/ st.loading] : r \in reqs }

MkStep(op, r, threw, value, before) ==
    [op |-> op, seq |-> r.seq, threw |-> threw, value |-> value,
     nullAtStart |-> r.nullAtStart, nullSince |-> r.nullSince,
     quiet |-> r.quiet, loadingSeen |-> r.loadingSeen,
     wasLoading |-> before.loading, hadData |-> before.data # Null]

NoStep ==
    [op |-> "none", seq |-> 0, threw |-> FALSE, value |-> Undefined,
     nullAtStart |-> TRUE, nullSince |-> TRUE, quiet |-> TRUE,
     loadingSeen |-> TRUE, wasLoading |-> TRUE, hadData |-> FALSE]

\* The synchronous prefix of the fetch callback, up to its await: the
\* functional setState, then the service call, which issues one request.
StartFetch(op, d) ==
    /\ issued < MaxRequests
    /\ LET after == BeginFetch(state)
           req   == MkRequest(issued + 1, ServiceUrl(hook, d), state, after)
       IN  /\ state' = after
           /\ inflight' = Observe(inflight, after, FALSE) \cup {req}
           /\ issued' = issued + 1
           /\ last' = MkStep(op, req, FALSE, Undefined, state)
    /\ dep' = d
    /\ UNCHANGED <<env, hook, rejections>>

\* useEffect(() => { fetchX(); }, [fetchX]) after the first render
MountEffect ==
    /\ pc = "rendered"
    /\ pc' = "mounted"
    /\ StartFetch("mount", dep)
    /\ UNCHANGED <<errVars, queryVars, filterVars, appVars, callerVars, clientVars, uiVars>>

\* A render with a dependency that is not Object.is-equal to the previous
\* one: useCallback yields a new callback and the effect runs it.
DepChange(d) ==
    /\ pc = "mounted"
    /\ d \in HookDeps(hook)
    /\ ~ObjectIs(dep, d)
    /\ StartFetch("dep", d)
    /\ UNCHANGED <<pc, errVars, queryVars, filterVars, appVars, callerVars, clientVars, uiVars>>

\* Mutant: refetch() returns at once while a fetch is in progress.
Refetch_NoOpWhileLoading ==
    /\ pc = "mounted"
    /\ issued < MaxRequests
    /\ IF state.loading
       THEN /\ last' = [last EXCEPT !.op = "refetch", !.seq = issued + 1,
                                    !.wasLoading = TRUE]
            /\ UNCHANGED <<env, hook, state, dep, inflight, issued, rejections>>
       ELSE StartFetch("refetch", dep)
    /\ UNCHANGED <<pc, errVars, queryVars, filterVars, appVars, callerVars, clientVars, uiVars>>

\* refetch(): the current fetch callback, called by the consumer.
Refetch ==
    /\ pc = "mounted"
    /\ StartFetch("refetch", dep)
    /\ UNCHANGED <<pc, errVars, queryVars, filterVars, appVars, callerVars, clientVars, uiVars>>

\* Mutant: a response is applied only if it belongs to the latest request.
Succeed_LastRequestedWins(r, d) ==
    /\ r \in inflight
    /\ d \in DataVals
    /\ state' = IF r.seq = issued THEN OnSuccess(d) ELSE state
    /\ inflight' = Observe(inflight \ {r}, state', r.seq = issued)
    /\ last' = MkStep("success", r, FALSE, d, state)
    /\ UNCHANGED <<env, hook, dep, pc, issued, rejections>>
    /\ UNCHANGED <<errVars, queryVars, filterVars, appVars, callerVars, clientVars, uiVars>>

\* The awaited service call fulfils with body d: the continuation after
\* the await sets the success state.
Succeed(r, d) ==
    /\ r \in inflight
    /\ d \in DataVals
    /\ state' = OnSuccess(d)
    /\ inflight' = Observe(inflight \ {r}, state', TRUE)
    /\ last' = MkStep("success", r, FALSE, d, state)
    /\ UNCHANGED <<env, hook, dep, pc, issued, rejections>>
    /\ UNCHANGED <<errVars, queryVars, filterVars, appVars, callerVars, clientVars, uiVars>>

\* Mutant: the catch block runs the request again.
Fail_Retry(r, e) ==
    /\ r \in inflight
    /\ e \in Throwable(env)
    /\ issued < MaxRequests
    /\ ~handleApiError(e).threw
    /\ state' = OnFailure(handleApiError(e).value)
    /\ inflight' = Observe(inflight \ {r}, state', FALSE)
                   \cup {MkRequest(issued + 1, r.url, state', state')}
    /\ issued' = issued + 1
    /\ last' = MkStep("failure", r, FALSE, handleApiError(e).value, state)
    /\ UNCHANGED <<env, hook, dep, pc, rejections>>
    /\ UNCHANGED <<errVars, queryVars, filterVars, appVars, callerVars, clientVars, uiVars>>

\* The awaited service call rejects with e: the catch block normalises e
\* and sets the failure state.  When handleApiError itself raises, the
\* setState call is never reached and the callback's promise rejects.
Fail(r, e) ==
    /\ r \in inflight
    /\ e \in Throwable(env)
    /\ LET res == handleApiError(e)
       IN  IF res.threw
           THEN /\ state' = state
                /\ inflight' = inflight \ {r}
                /\ rejections' = rejections + 1
                /\ last' = MkStep("failure", r, TRUE, res.value, state)
           ELSE /\ state' = OnFailure(res.value)
                /\ inflight' = Observe(inflight \ {r}, state', FALSE)
                /\ rejections' = rejections
                /\ last' = MkStep("failure", r, FALSE, res.value, state)
    /\ UNCHANGED <<env, hook, dep, pc, issued>>
    /\ UNCHANGED <<errVars, queryVars, filterVars, appVars, callerVars, clientVars, uiVars>>

(***************************************************************************)
(* Steps of the pure-function specifications.                              *)
(***************************************************************************)
MaxCalls == 2   \* service calls made in a run of SpecQuery

NoCall == [api |-> "none", args |-> NoArgs]

\* handleApiError(thrown) is called once.
HandleApiErrorCall ==
    /\ handled = NotYet
    /\ handled' = handleApiError(thrown)
    /\ UNCHANGED <<thrown, queryVars, filterVars, hookVars, appVars, callerVars, clientVars, uiVars>>

GetAll(api, args, url) ==
    /\ nCalls < MaxCalls
    /\ call' = [api |-> api, args |-> args]
    /\ issuedUrl' = url
    /\ nCalls' = nCalls + 1
    /\ UNCHANGED <<errVars, filterVars, hookVars, appVars, callerVars, clientVars, uiVars>>

SkillsGetAll == \E a \in SkillFilterArgs : GetAll("skills", a, skillsApi_getAll(a))
ProjectsGetAll == \E a \in ProjectFilterArgs : GetAll("projects", a, projectsApi_getAll(a))
ExperienceGetAll == \E a \in CurrentArgs : GetAll("experience", a, experienceApi_getAll(a))
EducationGetAll == \E a \in CurrentArgs : GetAll("education", a, educationApi_getAll(a))

\* setSelectedCategory(category.value), from one of the rendered buttons;
\* the memo is recomputed on the render that follows.
SetSelectedCategory(c) ==
    /\ c \in categories(skills)
    /\ c # selectedCategory
    /\ selectedCategory' = c
    /\ filtered' = filteredSkills(skills, c, showAll)
    /\ UNCHANGED <<skills, showAll, errVars, queryVars, hookVars, appVars, callerVars, clientVars, uiVars>>

\* The parent re-renders Skills with the other showAll value.
SetShowAll ==
    /\ showAll' = ~showAll
    /\ filtered' = filteredSkills(skills, selectedCategory, showAll')
    /\ UNCHANGED <<skills, selectedCategory, errVars, queryVars, hookVars, appVars, callerVars, clientVars, uiVars>>

(***************************************************************************)
(* Specifications                                                          *)
(***************************************************************************)
\* The components App renders, and the hook each of them calls.
AppComponents == {"Header", "Hero", "About", "Skills"}
HookOf(c) ==
    CASE c = "Hero"   -> "useAbout"
      [] c = "About"  -> "useAbout"
      [] c = "Skills" -> "useSkills"
      [] OTHER        -> "none"
HookComponents == { c \in AppComponents : HookOf(c) # "none" }

NoAppStep == [op |-> "none", comp |-> "", live |-> TRUE]
AppIdle ==
    /\ app = [c \in HookComponents |-> [pc |-> "unmounted", state |-> InitialState]]
    /\ net = [c \in HookComponents |-> [live |-> 0, orphan |-> 0]]
    /\ sent = 0
    /\ step = NoAppStep

CallerIdle == caller = "none"

NoReply    == [kind |-> "none", value |-> Undefined]
NotSettled == [kind |-> "pending", value |-> Undefined]
ClientIdle ==
    /\ wire = << >>
    /\ reply = NoReply
    /\ settled = NotSettled
    /\ console = << >>

\* useMultipleApiCalls before any executeCalls; Header and Hero not mounted.
NoMultiStep == [op |-> "none", batch |-> 0, threw |-> FALSE]
MultiIdle ==
    multi = [loading |-> TRUE, error |-> Null, batches |-> << >>, last |-> NoMultiStep]
NoLayout == [exists |-> {}, overlap |-> FALSE]
NoHeaderStep == [op |-> "none", arg |-> "", wasOpen |-> FALSE]
HeaderIdle ==
    header = [mounted |-> FALSE, isMobileMenuOpen |-> FALSE, activeSection |-> "home",
              layout |-> NoLayout, scrollY |-> 0, last |-> NoHeaderStep]
HeroIdle ==
    hero = [mounted |-> FALSE, currentText |-> 0, last |-> "none"]
UiIdle == MultiIdle /\ HeaderIdle /\ HeroIdle

ErrIdleThrown == MkThrown("undefined", FALSE, FALSE, Undefined, Undefined, Undefined)
ErrIdle ==
    /\ thrown = ErrIdleThrown
    /\ handled = NotYet
QueryIdle == call = NoCall /\ issuedUrl = "" /\ nCalls = 0
FilterIdle ==
    /\ skills = NullSkills
    /\ selectedCategory = "all"
    /\ showAll = FALSE
    /\ filtered = << >>
HookIdle ==
    /\ env = "axios"
    /\ hook = "useAbout"
    /\ state = InitialState
    /\ dep = MkDep(0, NoArgs)
    /\ pc = "rendered"
    /\ inflight = {}
    /\ issued = 0
    /\ rejections = 0
    /\ last = NoStep

HookInit(e) ==
    /\ env = e
    /\ hook \in HookNames
    /\ dep \in HookDeps(hook)
    /\ state = InitialState
    /\ pc = "rendered"
    /\ inflight = {}
    /\ issued = 0
    /\ rejections = 0
    /\ last = NoStep

HookNext ==
    \/ MountEffect
    \/ \E d \in HookDeps(hook) : DepChange(d)
    \/ Refetch
    \/ \E r \in inflight, d \in DataVals : Succeed(r, d)
    \/ \E r \in inflight, e \in Throwable(env) : Fail(r, e)

\* The hooks over the API client.
Init == HookInit("axios") /\ ErrIdle /\ QueryIdle /\ FilterIdle /\ AppIdle /\ CallerIdle /\ ClientIdle /\ UiIdle
Next == HookNext
Spec == Init /\ [][Next]_vars

\* The hooks over a service layer that may reject with any value.
InitAny == HookInit("any") /\ ErrIdle /\ QueryIdle /\ FilterIdle /\ AppIdle /\ CallerIdle /\ ClientIdle /\ UiIdle
SpecAny == InitAny /\ [][HookNext]_vars

\* handleApiError applied to every thrown value.
InitErr ==
    /\ thrown \in ThrownValues
    /\ handled = NotYet
    /\ QueryIdle /\ FilterIdle /\ HookIdle /\ AppIdle /\ CallerIdle /\ ClientIdle /\ UiIdle
NextErr == HandleApiErrorCall
SpecErr == InitErr /\ [][NextErr]_vars

\* The four getAll services applied to every filter combination.
InitQuery == QueryIdle /\ ErrIdle /\ FilterIdle /\ HookIdle /\ AppIdle /\ CallerIdle /\ ClientIdle /\ UiIdle
NextQuery == SkillsGetAll \/ ProjectsGetAll \/ ExperienceGetAll \/ EducationGetAll
SpecQuery == InitQuery /\ [][NextQuery]_vars

\* The Skills filter over every skills list.
InitFilter ==
    /\ skills \in {NullSkills} \cup { SkillsList(l) : l \in SkillLists }
    /\ selectedCategory = "all"
    /\ showAll \in BOOLEAN
    /\ filtered = filteredSkills(skills, selectedCategory, showAll)
    /\ ErrIdle /\ QueryIdle /\ HookIdle /\ AppIdle /\ CallerIdle /\ ClientIdle /\ UiIdle
NextFilter == (\E c \in categories(skills) : SetSelectedCategory(c)) \/ SetShowAll
SpecFilter == InitFilter /\ [][NextFilter]_vars

(***************************************************************************)
(* Properties                                                              *)
(***************************************************************************)
StartOps  == {"mount", "dep", "refetch"}
SettleOps == {"success", "failure"}

\* A step that starts a fetch cycle.
StartsCycle == issued' = issued + 1

C4_LastResolvedWins ==
    /\ (last.op = "success" => state = OnSuccess(last.value))
    /\ (last.op = "failure" => /\ ~last.threw
                               /\ state = OnFailure(last.value))

\* C4 witness: the hook holds the outcome of a request issued earlier than
\* a request that has already settled.
C4_EarlierRequestOverwrites ==
    /\ last.op \in SettleOps
    /\ \E s \in (last.seq + 1)..issued : \A r \in inflight : r.seq # s
    /\ (state.data = last.value \/ state.error = last.value)

\* C5: refetch() while loading issues exactly one further request and
\* leaves loading = true; loading only becomes false by a request settling.
C5_RefetchWhileLoading ==
    [][ /\ (last'.op = "refetch" /\ last'.seq = issued + 1 /\ state.loading)
           => /\ issued' = issued + 1
              /\ Cardinality(inflight') = Cardinality(inflight) + 1
              /\ \E r \in inflight' : r.seq = issued + 1
              /\ state'.loading
        /\ (state.loading /\ ~state'.loading)
           => /\ last'.op \in SettleOps
              /\ Cardinality(inflight') = Cardinality(inflight) - 1 ]_vars

\* C5 witness: two refetch() calls made while the mount request was still
\* in flight: three requests are in flight and the hook is loading.
C5_ThreeInFlight ==
    /\ last.op = "refetch"
    /\ last.wasLoading
    /\ Cardinality(inflight) = 3
    /\ issued = 3
    /\ state.loading

\* What the claim calls the first available of the four sources.
FirstAvailable(e) ==
    IF e.t = "object" /\ Truthy(ResponseDataMessage(e)) THEN ResponseDataMessage(e)
    ELSE IF e.t = "object" /\ Truthy(ResponseDataDetail(e)) THEN ResponseDataDetail(e)
    ELSE IF e.t = "object" /\ Truthy(e.message) THEN e.message
    ELSE Str(FallbackMessage)

\* C6: for every thrown value handleApiError returns the first available of
\* response.data.message, response.data.detail, the error's message and the
\* fixed fallback string.
C6_Precedence ==
    handled # NotYet => handled = Returned(FirstAvailable(thrown))

\* C7: every failed fetch, whatever was thrown, ends the cycle in
\* {loading: false, data: null, error: <string>}; the fetch callback never
\* rejects and a failed request never leaves the hook loading.
C7_RecoveredAtHookBoundary ==
    /\ rejections = 0
    /\ (last.op = "failure" =>
            /\ ~state.loading
            /\ state.data = Null
            /\ state.error.t = "string")

\* The failure state with nothing in flight.
FailedIdle ==
    /\ pc = "mounted"
    /\ ~state.loading /\ state.data = Null /\ state.error # Null
    /\ inflight = {}

\* C8: no automatic retry: a request is only ever issued by the mount
\* effect, a dependency change or refetch(), and from the failure state
\* with nothing in flight any other step leaves state and requests alone.
C8_NoAutomaticRetry ==
    [][ /\ (issued' # issued
              => last'.op \in StartOps /\ last'.seq = issued + 1)
        /\ (FailedIdle /\ ~(last'.op \in {"refetch", "dep"} /\ last'.seq = issued + 1)
              => state' = state /\ issued' = issued /\ inflight' = inflight) ]_vars

\* C8 witness: the hook rests in the failure state with nothing in flight.
C8_RestsInFailure ==
    /\ FailedIdle
    /\ last.op = "failure"
    /\ issued < MaxRequests

\* Reading a request URL back: the text after "?", split on "&" and "=".
RECURSIVE IndexOf(_, _, _)
IndexOf(s, ch, i) ==
    IF i > Len(s) THEN 0
    ELSE IF SubSeq(s, i, i) = ch THEN i
    ELSE IndexOf(s, ch, i + 1)

RECURSIVE SplitOn(_, _)
SplitOn(s, ch) ==
    LET i == IndexOf(s, ch, 1)
    IN  IF i = 0 THEN <<s>>
        ELSE <<SubSeq(s, 1, i - 1)>> \o SplitOn(SubSeq(s, i + 1, Len(s)), ch)

QueryPart(url) ==
    LET i == IndexOf(url, "?", 1)
    IN  IF i = 0 THEN "" ELSE SubSeq(url, i + 1, Len(url))

KeyValue(piece) ==
    LET i == IndexOf(piece, "=", 1)
    IN  IF i = 0 THEN <<piece, "">>
        ELSE <<SubSeq(piece, 1, i - 1), SubSeq(piece, i + 1, Len(piece))>>

ParseQuery(url) ==
    LET q == QueryPart(url)
        pieces == IF q = "" THEN << >> ELSE SplitOn(q, "&")
    IN  [i \in 1..Len(pieces) |-> KeyValue(pieces[i])]

FilterKeys == {"category", "featured", "published", "technology", "current"}
BooleanKeys(api) ==
    CASE api = "skills"   -> {"featured"}
      [] api = "projects" -> {"featured", "published"}
      [] OTHER            -> {"current"}

\* The value the caller passed for filter k.
FilterOf(c, k) ==
    IF c.api \in {"skills", "projects"} THEN Opt(c.args, k) ELSE c.args[k]

\* C9: the query string of a getAll request has no key whose filter is
\* undefined, no key with an empty or null value, and carries every defined
\* boolean filter exactly once as the literal "true" or "false".
C9_QueryString ==
    call.api # "none" =>
        LET q == ParseQuery(issuedUrl)
        IN  /\ \A i \in 1..Len(q) :
                  /\ q[i][1] \in FilterKeys
                  /\ FilterOf(call, q[i][1]) # Undefined
                  /\ q[i][2] \notin {"", "null", "undefined"}
            /\ \A k \in BooleanKeys(call.api) :
                  FilterOf(call, k) # Undefined =>
                      /\ \E i \in 1..Len(q) :
                            q[i] = <<k, IF FilterOf(call, k) = Bool(TRUE)
                                        THEN "true" ELSE "false">>
                      /\ Cardinality({i \in 1..Len(q) : q[i][1] = k}) = 1

\* C9 witness: projectsApi.getAll({featured: false, technology: "C++ & Qt"})
\* issued /projects/?featured=false&technology=C%2B%2B+%26+Qt.
C9_FalseIsSerialised ==
    /\ call.api = "projects"
    /\ call.args.featured = Bool(FALSE)
    /\ call.args.published = Undefined
    /\ call.args.technology = Str("C++ & Qt")
    /\ issuedUrl = "/projects/?featured=false&technology=C%2B%2B+%26+Qt"

\* C10: the memo is a function of (skills, selectedCategory, showAll); with
\* a category other than 'all' and showAll = false it is exactly the skills
\* of that category that are featured, in their original order, and with
\* 'all' and showAll = true it is the input list unchanged.
C10_FilterIsExact ==
    /\ filtered = filteredSkills(skills, selectedCategory, showAll)
    /\ ~skills.isNull =>
        /\ \A c \in SkillCategories \cup {"other"} :
              filteredSkills(skills, c, FALSE) =
                  SelectSeq(skills.list,
                            LAMBDA sk : sk.category = c /\ sk.is_featured)
        /\ filteredSkills(skills, "all", TRUE) = skills.list
        /\ (selectedCategory # "all" /\ ~showAll) =>
              filtered = SelectSeq(skills.list,
                            LAMBDA sk : sk.category = selectedCategory
                                        /\ sk.is_featured)
        /\ (selectedCategory = "all" /\ showAll) => filtered = skills.list

\* C10 witness: a category is selected with showAll = false, and the list
\* holds a featured skill of it, a non-featured skill of it and a featured
\* skill of another category: only the first is kept.
C10_OneOfThreeKept ==
    /\ ~skills.isNull
    /\ selectedCategory = "programming"
    /\ ~showAll
    /\ Len(skills.list) = 3
    /\ Len(filtered) = 1
    /\ \E i \in 1..3 : skills.list[i] = [category |-> "programming", is_featured |-> FALSE]
    /\ \E i \in 1..3 : skills.list[i] = [category |-> "design", is_featured |-> TRUE]

(***************************************************************************)
(* C11: the two stages of the Skills filter                                *)
(***************************************************************************)
\* The category stage and the featured stage of the memo, each on its own.
CategoryStage(list, category) ==
    IF category # "all" THEN FilterByCategory(list, category) ELSE list
FeaturedStage(list, all) ==
    IF ~all THEN FilterFeatured(list) ELSE list

\* C11: for the skills list held, every category and every showAll value,
\* the category stage followed by the featured stage gives the list that
\* the featured stage followed by the category stage gives, which is the
\* memo; and the memo applied to its own result returns that result.
C11_StagesCommute ==
    /\ ~skills.isNull =>
          \A c \in SkillCategories \cup {"all", "other"}, a \in BOOLEAN :
              /\ FeaturedStage(CategoryStage(skills.list, c), a)
                     = CategoryStage(FeaturedStage(skills.list, a), c)
              /\ filteredSkills(skills, c, a)
                     = FeaturedStage(CategoryStage(skills.list, c), a)
              /\ filteredSkills(SkillsList(filteredSkills(skills, c, a)), c, a)
                     = filteredSkills(skills, c, a)
    /\ filteredSkills(SkillsList(filtered), selectedCategory, showAll) = filtered

\* C11 witness: a category is selected with showAll = false and each stage
\* on its own drops a skill the other keeps, yet a skill survives both.
C11_BothStagesDrop ==
    /\ ~skills.isNull
    /\ selectedCategory = "design"
    /\ ~showAll
    /\ FilterByCategory(skills.list, "design") # skills.list
    /\ FilterFeatured(skills.list) # skills.list
    /\ FilterFeatured(FilterByCategory(skills.list, "design"))
           # FilterByCategory(skills.list, "design")
    /\ FilterByCategory(FilterFeatured(skills.list), "design")
           # FilterFeatured(skills.list)
    /\ filtered # << >>

(***************************************************************************)
(* Skills component: what it renders from its useSkills() state.           *)
(***************************************************************************)
MaxCards == 2      \* length of the list the skills service returns

Arr(l) == [t |-> "array", v |-> l]

YearsValues == {0, 1}
CardRecords ==
    [category : SkillCategories, is_featured : BOOLEAN,
     proficiency_level : 1..5, years_experience : YearsValues]
CardLists == UNION { [1..n -> CardRecords] : n \in 0..MaxCards }

\* `data: skills` as destructured from the hook's state
AsSkills(d) == IF d.t = "array" THEN SkillsList(d.v) ELSE NullSkills

\* A JavaScript number with one decimal, held in tenths; a division by
\* zero gives NaN (0/0) or Infinity (n/0).
Num(tenths) == [kind |-> "number", tenths |-> tenths]
NaN         == [kind |-> "NaN", tenths |-> 0]
Infinity    == [kind |-> "Infinity", tenths |-> 0]

RECURSIVE SumOf(_, _)
SumOf(list, field) ==
    IF list = << >> THEN 0 ELSE Head(list)[field] + SumOf(Tail(list), field)

\* Math.round(sum / n * 10) / 10
RoundedRatio(sum, n) ==
    IF n = 0 THEN (IF sum = 0 THEN NaN ELSE Infinity)
    ELSE Num((20 * sum + n) \div (2 * n))

\* Mutant: the width is computed on a scale of ten.
ProgressWidth_OutOfTen(level) == (level * 100) \div 10

\* progressVariants.visible(level).width, in percent
ProgressWidth(level) == (level * 100) \div 5

getProficiencyColor(level) ==
    IF level >= 4 THEN "#10b981"
    ELSE IF level >= 3 THEN "#f59e0b"
    ELSE IF level >= 2 THEN "#f97316"
    ELSE "#ef4444"

getProficiencyLabel(level) ==
    LET labels == <<"Beginner", "Novice", "Intermediate", "Advanced", "Expert">>
    IN  IF level \in 1..5 THEN labels[level] ELSE "Unknown"

\* One card of the grid.
SkillCard(skill) ==
    [skill    |-> skill,
     label    |-> getProficiencyLabel(skill.proficiency_level),
     color    |-> getProficiencyColor(skill.proficiency_level),
     width    |-> ProgressWidth(skill.proficiency_level),
     plural   |-> skill.years_experience # 1,
     featured |-> skill.is_featured]

NoSummary ==
    [rendered |-> FALSE, total |-> 0, featuredCount |-> 0,
     averageLevel |-> Num(0), totalExperience |-> Num(0)]

SummaryFigures(list) ==
    [rendered |-> TRUE,
     total |-> Len(list),
     featuredCount |-> Len(FilterFeatured(list)),
     averageLevel |-> RoundedRatio(SumOf(list, "proficiency_level"), Len(list)),
     totalExperience |-> Num(10 * SumOf(list, "years_experience"))]

\* Mutant: the summary is rendered for every non-null list.
SummaryBlock_Unguarded(sk) ==
    IF sk.isNull THEN NoSummary ELSE SummaryFigures(sk.list)

\* {skills && skills.length > 0 && ( ... )}
SummaryBlock(sk) ==
    IF ~sk.isNull /\ Len(sk.list) > 0 THEN SummaryFigures(sk.list)
    ELSE NoSummary

BlankView(kind, heading, message) ==
    [kind |-> kind, heading |-> heading, message |-> message,
     buttons |-> {}, cards |-> << >>, summary |-> NoSummary]

\* The element the Skills function component returns.
SkillsView(st, sk, flt) ==
    IF st.loading THEN BlankView("loading", "", "Loading skills...")
    ELSE IF Truthy(st.error)
    THEN BlankView("error", "Skills & Technologies",
             "Unable to load skills information. Please try again later.")
    ELSE [kind    |-> "success",
          heading |-> "Skills & Technologies",
          message |-> IF Len(flt) = 0
                      THEN "No skills found for the selected category."
                      ELSE "",
          buttons |-> categories(sk),
          cards   |-> [i \in 1..Len(flt) |-> SkillCard(flt[i])],
          summary |-> SummaryBlock(sk)]

\* The skills service fulfils with response.data = list: the hook sets the
\* success state and the component renders again with the new `skills`.
SkillsSucceed(r, list) ==
    /\ r \in inflight
    /\ state' = OnSuccess(Arr(list))
    /\ inflight' = Observe(inflight \ {r}, state', TRUE)
    /\ last' = MkStep("success", r, FALSE, Arr(list), state)
    /\ skills' = AsSkills(state'.data)
    /\ filtered' = filteredSkills(skills', selectedCategory, showAll)
    /\ UNCHANGED <<env, hook, dep, pc, issued, rejections>>
    /\ UNCHANGED <<selectedCategory, showAll, errVars, queryVars, appVars, callerVars, clientVars, uiVars>>

\* A click on one of the category buttons of the success view.
ClickCategory(c) ==
    /\ SkillsView(state, skills, filtered).kind = "success"
    /\ SetSelectedCategory(c)

\* The Skills component over every list the service may return.
InitSkills ==
    /\ env = "axios"
    /\ hook = "useSkills"
    /\ dep = MkDep(0, NoArgs)
    /\ state = InitialState
    /\ pc = "rendered"
    /\ inflight = {}
    /\ issued = 0
    /\ rejections = 0
    /\ last = NoStep
    /\ skills = AsSkills(state.data)
    /\ selectedCategory = "all"
    /\ showAll \in BOOLEAN
    /\ filtered = filteredSkills(skills, selectedCategory, showAll)
    /\ ErrIdle /\ QueryIdle /\ AppIdle /\ CallerIdle /\ ClientIdle /\ UiIdle
NextSkills ==
    \/ MountEffect
    \/ \E r \in inflight, l \in CardLists : SkillsSucceed(r, l)
    \/ \E r \in inflight, e \in Throwable(env) : Fail(r, e)
    \/ \E c \in categories(skills) : ClickCategory(c)
SpecSkills == InitSkills /\ [][NextSkills]_vars

\* C12: whenever the summary block is rendered the list is not empty and
\* both aggregated figures are numbers (never NaN or Infinity); after a
\* success with zero skills the summary block is not rendered at all, so
\* no division takes place.
C12_SummaryNeverDividesByZero ==
    LET s == SkillsView(state, skills, filtered).summary
    IN  /\ s.rendered =>
              /\ ~skills.isNull /\ Len(skills.list) > 0
              /\ s.averageLevel.kind = "number"
              /\ s.totalExperience.kind = "number"
              /\ s.averageLevel.tenths \in 10..50
        /\ (~state.loading /\ state.data = Arr(<< >>)) => ~s.rendered

\* C12 witness: the hook succeeded with an empty list and the success view
\* is shown without a summary block.
C12_SuccessWithZeroSkills ==
    /\ last.op = "success"
    /\ state = [data |-> Arr(<< >>), loading |-> FALSE, error |-> Null]
    /\ skills = SkillsList(<< >>)
    /\ SkillsView(state, skills, filtered).kind = "success"
    /\ ~SkillsView(state, skills, filtered).summary.rendered

\* C13: once the skills service has returned a list, the hook's state holds
\* that very list (same records, same order); and the success view shows
\* one card per record of the filtered list, in order, whose progress bar
\* is 20, 40, 60, 80 or 100 percent wide for levels 1 to 5.
C13_OneCardPerSkill ==
    LET v == SkillsView(state, skills, filtered)
    IN  /\ last.op = "success" =>
              /\ state = [data |-> last.value, loading |-> FALSE, error |-> Null]
              /\ skills = SkillsList(last.value.v)
        /\ filtered = filteredSkills(AsSkills(state.data), selectedCategory, showAll)
        /\ v.kind = "success" =>
              /\ Len(v.cards) = Len(filtered)
              /\ \A i \in 1..Len(filtered) :
                    /\ v.cards[i].skill = filtered[i]
                    /\ v.cards[i].width =
                          <<20, 40, 60, 80, 100>>[filtered[i].proficiency_level]
        /\ v.kind # "success" => v.cards = << >>

\* C13 witness: the service returned two skills, the second not featured;
\* with showAll = false one card is shown, for the level-3 skill, 60 wide.
C13_SixtyPercentCard ==
    LET v == SkillsView(state, skills, filtered)
    IN  /\ last.op = "success"
        /\ ~showAll
        /\ selectedCategory = "all"
        /\ Len(last.value.v) = 2
        /\ last.value.v[1].proficiency_level = 3 /\ last.value.v[1].is_featured
        /\ ~last.value.v[2].is_featured
        /\ v.kind = "success"
        /\ Len(v.cards) = 1
        /\ v.cards[1].width = 60

(***************************************************************************)
(* The App: Header, Hero, About and Skills rendered side by side, each     *)
(* component with its own hook instance.                                   *)
(***************************************************************************)
MaxAppRequests == 3

\* Bodies the /about/ endpoint may return, and the skills lists.
AboutBody(name, bio) == [t |-> "about", v |-> [name |-> name, bio |-> bio]]
AboutBodies == {AboutBody("", ""), AboutBody("Cheptoo K", "Engineer")}
AppSkillLists ==
    {<< >>,
     <<[category |-> "programming", is_featured |-> TRUE,
        proficiency_level |-> 4, years_experience |-> 1]>>}
Bodies(h) ==
    IF h = "useSkills" THEN { Arr(l) : l \in AppSkillLists } ELSE AboutBodies

\* about?.field || fallback
AboutField(data, field, fallback) ==
    IF data.t = "about" /\ data.v[field] # "" THEN data.v[field] ELSE fallback

GenericAboutError ==
    "Unable to load personal information. Please try again later."

\* Mutant: the error view shows the hook's error string.
HeroView_ShowsError(st) ==
    IF st.loading
    THEN [kind |-> "loading", heading |-> "", message |-> "Loading...",
          name |-> "", bio |-> ""]
    ELSE IF Truthy(st.error)
    THEN [kind |-> "error", heading |-> "Welcome to My Portfolio",
          message |-> st.error.v, name |-> "", bio |-> ""]
    ELSE [kind |-> "success", heading |-> "", message |-> "",
          name |-> AboutField(st.data, "name", "Cheptoo"),
          bio  |-> AboutField(st.data, "bio", "Passionate about creating innovative solutions")]

\* The element the Hero function component returns.
HeroView(st) ==
    IF st.loading
    THEN [kind |-> "loading", heading |-> "", message |-> "Loading...",
          name |-> "", bio |-> ""]
    ELSE IF Truthy(st.error)
    THEN [kind |-> "error", heading |-> "Welcome to My Portfolio",
          message |-> GenericAboutError, name |-> "", bio |-> ""]
    ELSE [kind |-> "success", heading |-> "", message |-> "",
          name |-> AboutField(st.data, "name", "Cheptoo"),
          bio  |-> AboutField(st.data, "bio", "Passionate about creating innovative solutions")]

\* Mutant: About has no error view.
AboutView_NoErrorView(st) ==
    IF st.loading
    THEN [kind |-> "loading", heading |-> "",
          message |-> "Loading about information...", name |-> "", bio |-> ""]
    ELSE [kind |-> "success", heading |-> "About Me", message |-> "",
          name |-> AboutField(st.data, "name", "Cheptoo"),
          bio  |-> AboutField(st.data, "bio", "I'm a passionate full-stack developer")]

\* The element the About function component returns.
AboutView(st) ==
    IF st.loading
    THEN [kind |-> "loading", heading |-> "",
          message |-> "Loading about information...", name |-> "", bio |-> ""]
    ELSE IF Truthy(st.error)
    THEN [kind |-> "error", heading |-> "About Me",
          message |-> GenericAboutError, name |-> "", bio |-> ""]
    ELSE [kind |-> "success", heading |-> "About Me", message |-> "",
          name |-> AboutField(st.data, "name", "Cheptoo"),
          bio  |-> AboutField(st.data, "bio", "I'm a passionate full-stack developer")]

\* The element the Header function component returns: the navigation bar,
\* whatever the state of any hook.
navItems == <<"Home", "About", "Skills", "Projects", "Experience", "Contact">>
Sections == {"home", "about", "skills", "projects", "experience", "contact"}
HeaderView(isScrolled, isMobileMenuOpen, activeSection) ==
    [kind |-> "navigation", brand |-> "Cheptoo", items |-> navItems,
     scrolled |-> isScrolled, menuOpen |-> isMobileMenuOpen,
     active |-> activeSection]

\* Console entries a component's render emits: no component calls console.
ComponentLogs(c, st) == << >>

\* What a component with a hook shows for hook state st.  App renders
\* <Skills showAll={false} />, and no category has been clicked.
HookedView(c, st) ==
    CASE c = "Hero"  -> HeroView(st)
      [] c = "About" -> AboutView(st)
      [] OTHER       -> SkillsView(st, AsSkills(st.data),
                            filteredSkills(AsSkills(st.data), "all", FALSE))

\* What the App's service calls can reject with: two errors of the API
\* client that handleApiError turns into different strings.
AppErrors ==
    { e \in AxiosErrors :
        /\ e.dataDetail = Undefined
        /\ e.dataMessage \in {Undefined, Str("server message")}
        /\ e.hasResponse = (e.dataMessage # Undefined)
        /\ e.hasData = e.hasResponse }

\* The synchronous prefix of component c's fetch callback: one more
\* request of c's mounted instance is in flight.
AppStartFetch(op, c) ==
    /\ sent < MaxAppRequests
    /\ app' = [app EXCEPT ![c].pc = "mounted", ![c].state = BeginFetch(@)]
    /\ net' = [net EXCEPT ![c].live = @ + 1]
    /\ sent' = sent + 1
    /\ step' = [op |-> op, comp |-> c, live |-> TRUE]
    /\ UNCHANGED <<errVars, queryVars, filterVars, hookVars, callerVars, clientVars, uiVars>>

\* useEffect(() => { fetchX(); }, [fetchX]) after c's first render
AppEffect(c) ==
    /\ app[c].pc = "rendered"
    /\ AppStartFetch("fetch", c)

\* refetch of c's hook instance
AppRefetch(c) ==
    /\ app[c].pc = "mounted"
    /\ AppStartFetch("refetch", c)

\* Mutant: unmounting aborts the requests of the instance.
AppUnmount_Cancels(c) ==
    /\ app[c].pc # "unmounted"
    /\ app' = [app EXCEPT ![c] = [pc |-> "unmounted", state |-> InitialState]]
    /\ net' = [net EXCEPT ![c].live = 0]
    /\ step' = [op |-> "unmount", comp |-> c, live |-> TRUE]
    /\ UNCHANGED <<sent, errVars, queryVars, filterVars, hookVars, callerVars, clientVars, uiVars>>

\* c is removed from the tree: its hook instance and state are dropped.
\* The hooks register no cleanup, so its requests stay in flight.
AppUnmount(c) ==
    /\ app[c].pc # "unmounted"
    /\ app' = [app EXCEPT ![c] = [pc |-> "unmounted", state |-> InitialState]]
    /\ net' = [net EXCEPT ![c] = [live |-> 0, orphan |-> @.orphan + @.live]]
    /\ step' = [op |-> "unmount", comp |-> c, live |-> TRUE]
    /\ UNCHANGED <<sent, errVars, queryVars, filterVars, hookVars, callerVars, clientVars, uiVars>>

\* c is rendered again: a new hook instance with the useState initial value.
AppRemount(c) ==
    /\ app[c].pc = "unmounted"
    /\ app' = [app EXCEPT ![c] = [pc |-> "rendered", state |-> InitialState]]
    /\ step' = [op |-> "remount", comp |-> c, live |-> TRUE]
    /\ UNCHANGED <<net, sent, errVars, queryVars, filterVars, hookVars, callerVars, clientVars, uiVars>>

\* A request of c settles: of the mounted instance (isLive) or of an
\* instance unmounted since.
Settle(c, isLive) ==
    /\ IF isLive THEN net[c].live > 0 ELSE net[c].orphan > 0
    /\ net' = IF isLive THEN [net EXCEPT ![c].live = @ - 1]
              ELSE [net EXCEPT ![c].orphan = @ - 1]

\* Mutant: a success is stored for every mounted instance of the same hook.
AppSucceed_SharedCache(c, isLive, d) ==
    /\ Settle(c, isLive)
    /\ d \in Bodies(HookOf(c))
    /\ app' = [x \in HookComponents |->
                  IF HookOf(x) = HookOf(c) /\ app[x].pc = "mounted"
                  THEN [app[x] EXCEPT !.state = OnSuccess(d)] ELSE app[x]]
    /\ step' = [op |-> "success", comp |-> c, live |-> isLive]
    /\ UNCHANGED <<sent, errVars, queryVars, filterVars, hookVars, callerVars, clientVars, uiVars>>

\* A request of c fulfils with body d.  The continuation calls the
\* setState of the instance that issued it; on an unmounted instance that
\* is a no-op.
AppSucceed(c, isLive, d) ==
    /\ Settle(c, isLive)
    /\ d \in Bodies(HookOf(c))
    /\ app' = IF isLive THEN [app EXCEPT ![c].state = OnSuccess(d)] ELSE app
    /\ step' = [op |-> "success", comp |-> c, live |-> isLive]
    /\ UNCHANGED <<sent, errVars, queryVars, filterVars, hookVars, callerVars, clientVars, uiVars>>

\* A request of c rejects with e.
AppFail(c, isLive, e) ==
    /\ Settle(c, isLive)
    /\ e \in AppErrors
    /\ LET res == handleApiError(e)
       IN  app' = IF isLive /\ ~res.threw
                  THEN [app EXCEPT ![c].state = OnFailure(res.value)]
                  ELSE app
    /\ step' = [op |-> "failure", comp |-> c, live |-> isLive]
    /\ UNCHANGED <<sent, errVars, queryVars, filterVars, hookVars, callerVars, clientVars, uiVars>>

InitApp ==
    /\ app = [c \in HookComponents |-> [pc |-> "rendered", state |-> InitialState]]
    /\ net = [c \in HookComponents |-> [live |-> 0, orphan |-> 0]]
    /\ sent = 0
    /\ step = NoAppStep
    /\ ErrIdle /\ QueryIdle /\ FilterIdle /\ HookIdle /\ CallerIdle /\ ClientIdle /\ UiIdle
NextApp ==
    \/ \E c \in HookComponents : AppEffect(c)
    \/ \E c \in HookComponents : AppRefetch(c)
    \/ \E c \in HookComponents : AppUnmount(c)
    \/ \E c \in HookComponents : AppRemount(c)
    \/ \E c \in HookComponents, l \in BOOLEAN :
          \E d \in Bodies(HookOf(c)) : AppSucceed(c, l, d)
    \/ \E c \in HookComponents, l \in BOOLEAN, e \in AppErrors : AppFail(c, l, e)
SpecApp == InitApp /\ [][NextApp]_vars

AppTypeOK ==
    /\ \A c \in HookComponents : app[c].pc \in {"unmounted", "rendered", "mounted"}
    /\ sent \in 0..MaxAppRequests
    /\ Cardinality({handleApiError(e).value : e \in AppErrors}) = 2

\* The view a component is to show for hook state st.
ExpectedKind(st) ==
    IF st.loading THEN "loading"
    ELSE IF st.error # Null THEN "error"
    ELSE "success"

\* C14 (as stated): every component App renders, Header included, has a
\* hook and shows the loading, error or success view that the hook's
\* state selects.
C14_ThreeViewsForAll ==
    \A c \in AppComponents :
        /\ HookOf(c) # "none"
        /\ app[c].pc # "unmounted" =>
              HookedView(c, app[c].state).kind = ExpectedKind(app[c].state)

\* C14: Hero, About and Skills each show exactly one view, the one their
\* hook's state selects: the loading view while loading, the error view
\* when not loading and an error is held, the success view otherwise.
\* Header calls no hook and shows its navigation bar in every state.
C14_OneViewPerHookedComponent ==
    /\ \A c \in HookComponents :
          app[c].pc # "unmounted" =>
              LET st == app[c].state
                  v  == HookedView(c, st)
              IN  /\ v.kind = ExpectedKind(st)
                  /\ v.kind = "loading" => v.message # "" /\ v.heading = ""
                  /\ v.kind = "error" => v.message # "" /\ v.heading # ""
    /\ HookComponents = {"Hero", "About", "Skills"}
    /\ \A s \in BOOLEAN, m \in BOOLEAN, a \in Sections :
          HeaderView(s, m, a).kind = "navigation"

\* C14 witness: at one moment Hero shows its success view, About its error
\* view and Skills its loading view.
C14_ThreeViewsAtOnce ==
    /\ \A c \in HookComponents : app[c].pc = "mounted"
    /\ HookedView("Hero", app["Hero"].state).kind = "success"
    /\ HookedView("About", app["About"].state).kind = "error"
    /\ HookedView("Skills", app["Skills"].state).kind = "loading"

\* Every value handleApiError can hand to a hook as its error.
ErrorValues ==
    { handleApiError(e).value : e \in { x \in ThrownValues : ~handleApiError(x).threw } }

\* C15: the view of Hero, About and Skills in the error state is the same
\* for every error value the hook may hold: it carries the component's
\* fixed generic message and nothing of the error, and rendering it writes
\* nothing to the console.
C15_ErrorViewIsGeneric ==
    /\ \A c \in HookComponents, e1 \in ErrorValues, e2 \in ErrorValues :
          /\ HookedView(c, OnFailure(e1)) = HookedView(c, OnFailure(e2))
          /\ HookedView(c, OnFailure(e1)).kind = "error"
          /\ HookedView(c, OnFailure(e1)).message =
                IF c = "Skills"
                THEN "Unable to load skills information. Please try again later."
                ELSE GenericAboutError
          /\ ComponentLogs(c, OnFailure(e1)) = << >>
    /\ \A c \in HookComponents :
          (app[c].pc # "unmounted" /\ ExpectedKind(app[c].state) = "error") =>
              /\ \A e \in ErrorValues :
                    HookedView(c, app[c].state) = HookedView(c, OnFailure(e))
              /\ ComponentLogs(c, app[c].state) = << >>

\* C15 witness: Hero and About both failed, with different error strings,
\* and both show the same generic message.
C15_TwoErrorsOneMessage ==
    /\ app["Hero"].pc = "mounted" /\ app["About"].pc = "mounted"
    /\ ExpectedKind(app["Hero"].state) = "error"
    /\ ExpectedKind(app["About"].state) = "error"
    /\ app["Hero"].state.error # app["About"].state.error
    /\ HeroView(app["Hero"].state).message = GenericAboutError
    /\ AboutView(app["About"].state).message = GenericAboutError

(***************************************************************************)
(* A hook inside a component that renders again after every state update. *)
(* pc: "rendered"  a render has committed and the fetch effect is pending  *)
(*     "dirty"     the state was set and the next render is pending        *)
(*     "mounted"   rendered with an unchanged callback: nothing pending    *)
(***************************************************************************)
DepHooks == {"useSkills", "useExperience"}

\* The argument the component passes on its next render.  A "literal"
\* caller evaluates the same expression again: an object literal yields a
\* new object with the same content, a primitive the same value.  A
\* "stable" caller passes the very value it passed before.
NextDep(c, d) ==
    IF c = "literal" /\ d.ref # 0
    THEN MkDep((d.ref % MaxRefs) + 1, d.args)
    ELSE d

\* useEffect(() => { fetchX(); }, [fetchX]) with a new fetchX
RenderEffect ==
    /\ pc = "rendered"
    /\ StartFetch(IF issued = 0 THEN "mount" ELSE "dep", dep)
    /\ pc' = "dirty"
    /\ UNCHANGED <<errVars, queryVars, filterVars, appVars, callerVars, clientVars, uiVars>>

\* Mutant: useCallback yields a new callback on every render.
Rerender_NewCallback ==
    /\ pc = "dirty"
    /\ dep' = NextDep(caller, dep)
    /\ pc' = "rendered"
    /\ UNCHANGED <<env, hook, state, inflight, issued, rejections, last>>
    /\ UNCHANGED <<errVars, queryVars, filterVars, appVars, callerVars, clientVars, uiVars>>

\* The render that follows a state update: useCallback compares the new
\* dependency with the previous one and the effect is scheduled when the
\* callback is new.
Rerender ==
    /\ pc = "dirty"
    /\ dep' = NextDep(caller, dep)
    /\ pc' = IF ObjectIs(dep, dep') THEN "mounted" ELSE "rendered"
    /\ UNCHANGED <<env, hook, state, inflight, issued, rejections, last>>
    /\ UNCHANGED <<errVars, queryVars, filterVars, appVars, callerVars, clientVars, uiVars>>

\* The parent renders the component with other filters / another flag.
ParentChange(d) ==
    /\ pc = "mounted"
    /\ d \in HookDeps(hook)
    /\ d.args # dep.args
    /\ d.ref = 0 \/ d.ref # dep.ref
    /\ dep' = d
    /\ pc' = IF ObjectIs(dep, dep') THEN "mounted" ELSE "rendered"
    /\ UNCHANGED <<env, hook, state, inflight, issued, rejections, last>>
    /\ UNCHANGED <<errVars, queryVars, filterVars, appVars, callerVars, clientVars, uiVars>>

\* What the service call rejects with here: a network error.
RenderErrors == { e \in AppErrors : ~e.hasResponse }

\* A request settles; the setState call schedules a render.
RenderSettled == pc' = IF pc = "mounted" THEN "dirty" ELSE pc

RenderSucceed(r, d) ==
    /\ r \in inflight
    /\ d \in DataVals
    /\ state' = OnSuccess(d)
    /\ inflight' = Observe(inflight \ {r}, state', TRUE)
    /\ last' = MkStep("success", r, FALSE, d, state)
    /\ RenderSettled
    /\ UNCHANGED <<env, hook, dep, issued, rejections>>
    /\ UNCHANGED <<errVars, queryVars, filterVars, appVars, callerVars, clientVars, uiVars>>

RenderFail(r, e) ==
    /\ r \in inflight
    /\ e \in RenderErrors
    /\ state' = OnFailure(handleApiError(e).value)
    /\ inflight' = Observe(inflight \ {r}, state', FALSE)
    /\ last' = MkStep("failure", r, FALSE, handleApiError(e).value, state)
    /\ RenderSettled
    /\ UNCHANGED <<env, hook, dep, issued, rejections>>
    /\ UNCHANGED <<errVars, queryVars, filterVars, appVars, callerVars, clientVars, uiVars>>

InitRender ==
    /\ env = "axios"
    /\ hook \in DepHooks
    /\ caller \in {"literal", "stable"}
    /\ dep \in HookDeps(hook)
    /\ state = InitialState
    /\ pc = "rendered"
    /\ inflight = {}
    /\ issued = 0
    /\ rejections = 0
    /\ last = NoStep
    /\ ErrIdle /\ QueryIdle /\ FilterIdle /\ AppIdle /\ ClientIdle /\ UiIdle
NextRender ==
    \/ RenderEffect
    \/ Rerender
    \/ \E d \in HookDeps(hook) : ParentChange(d)
    \/ \E r \in inflight : RenderSucceed(r, Obj("d1"))
    \/ \E r \in inflight : \E e \in RenderErrors : RenderFail(r, e)
SpecRender == InitRender /\ [][NextRender]_vars

\* The steps of RenderEffect, told by what they do to pc and issued: no
\* other step of NextRender takes pc from "rendered" to "dirty", and
\* RenderEffect is enabled exactly when this is.
EffectRuns ==
    /\ pc = "rendered"
    /\ issued < MaxRequests
    /\ pc' = "dirty"
    /\ issued' = issued + 1

\* React runs every pending effect and every scheduled render.
FairSpecRender ==
    SpecRender /\ WF_<<pc, issued>>(EffectRuns) /\ WF_vars(Rerender)

\* The dependency changed: by reference for the filter objects of
\* useSkills / useProjects, by value for undefined and the current flag.
DepChanged(a, b) ==
    IF hook \in {"useSkills", "useProjects"} /\ (a.ref # 0 \/ b.ref # 0)
    THEN a.ref # b.ref
    ELSE a.args # b.args

\* C16: a render schedules the fetch effect exactly when the dependency
\* changed since the previous render; a request is issued only by that
\* effect, and issuing it puts the hook in the loading state; and a caller
\* that passes a new filter object on every render keeps the hook issuing
\* requests for as long as requests can be issued.
C16_RefetchOnDependencyChange ==
    /\ [][ (pc \in {"dirty", "mounted"} /\ dep' # dep) =>
               (pc' = "rendered" <=> DepChanged(dep, dep')) ]_vars
    /\ [][ (pc = "dirty" /\ pc' # "dirty" /\ dep' = dep) => pc' = "mounted" ]_vars
    /\ [][ issued' # issued =>
               /\ pc = "rendered"
               /\ issued' = issued + 1
               /\ state'.loading /\ state'.error = Null ]_vars
    /\ (caller = "literal" /\ dep.ref # 0) ~> (issued = MaxRequests)

\* C16 witness: a literal caller of a filter hook has issued every request
\* it could while none of them has settled.
C16_FetchEveryRender ==
    /\ caller = "literal"
    /\ dep.ref # 0
    /\ issued = MaxRequests
    /\ Cardinality(inflight) = MaxRequests
    /\ pc = "rendered"

\* Requests of component c in flight, whichever instance issued them.
InFlight(n, c) == n[c].live + n[c].orphan

\* C17: unmounting a component leaves every request in flight; a request
\* of an unmounted instance leaves the network only by settling, and that
\* step changes the state of no component; a component mounted again
\* starts from {data: null, loading: true, error: null} and its effect
\* issues a request of its own.
C17_UnmountCancelsNothing ==
    [][ \A c \in HookComponents :
          /\ (app[c].pc # "unmounted" /\ app'[c].pc = "unmounted") =>
                /\ InFlight(net', c) = InFlight(net, c)
                /\ net'[c].orphan = net[c].orphan + net[c].live
          /\ net'[c].orphan < net[c].orphan =>
                /\ step'.op \in {"success", "failure"} /\ ~step'.live
                /\ net'[c].orphan = net[c].orphan - 1
                /\ app' = app
          /\ (app[c].pc = "unmounted" /\ app'[c].pc # "unmounted") =>
                /\ app'[c] = [pc |-> "rendered", state |-> InitialState]
                /\ net' = net
          /\ (app[c].pc = "rendered" /\ app'[c].pc = "mounted") =>
                /\ net'[c].live = net[c].live + 1
                /\ sent' = sent + 1
                /\ app'[c].state.loading
      ]_vars

\* C17 witness: About was unmounted with its request in flight and mounted
\* again; the old request has just settled, and the new instance is still
\* in its initial loading state with its own request in flight.
C17_LateResponseIgnored ==
    /\ step.op \in {"success", "failure"}
    /\ step.comp = "About"
    /\ ~step.live
    /\ app["About"] = [pc |-> "mounted", state |-> InitialState]
    /\ net["About"] = [live |-> 1, orphan |-> 0]

\* C18: every step changes the state and the requests of at most one
\* component, the one that took the step (start of a fetch, refetch,
\* success, failure, unmount, remount), under every interleaving; Hero
\* and About call the same hook, and each has issued its own /about/
\* request once both effects have run.
C18_OneInstancePerStep ==
    /\ [][ \A c \in HookComponents :
              (app'[c] # app[c] \/ net'[c] # net[c]) =>
                  /\ step'.comp = c
                  /\ \A x \in HookComponents \ {c} :
                        app'[x] = app[x] /\ net'[x] = net[x] ]_vars
    /\ [](/\ HookOf("Hero") = HookOf("About")
          /\ ServiceUrl(HookOf("Hero"), MkDep(0, NoArgs)) = "/about/"
          /\ (app["Hero"].pc = "mounted" /\ app["About"].pc = "mounted") =>
                sent >= 2)

\* C18 witness: Hero's request succeeded and About's failed.
C18_HeroSucceedsAboutFails ==
    /\ app["Hero"].pc = "mounted" /\ app["About"].pc = "mounted"
    /\ ExpectedKind(app["Hero"].state) = "success"
    /\ ExpectedKind(app["About"].state) = "error"
    /\ app["About"].state.data = Null
    /\ sent = 2
    /\ step.op = "failure" /\ step.comp = "About"

(***************************************************************************)
(* apiClient: one service call through the request interceptor, the        *)
(* transport and the response interceptor.                                 *)
(***************************************************************************)
\* apiClient.get(url): the request config
GetConfig(url) == [method |-> "get", url |-> url]

\* What the transport answers: a 2xx response carrying a body, or an
\* AxiosError (no response: network failure or timeout; with a response:
\* a status outside 2xx).
MkResponse(status, data, config) ==
    [status |-> status, data |-> data, config |-> config]
TransportOutcomes(config) ==
    { [kind |-> "response", value |-> MkResponse(200, d, config)] : d \in DataVals }
    \cup { [kind |-> "error", value |-> e] : e \in AxiosErrors }

\* The TypeError raised by a property read on null or undefined.
ThrownTypeError ==
    MkThrown("object", FALSE, FALSE, Undefined, Undefined,
             Str("Cannot read properties of undefined"))

\* A promise handler's result: the value it returns or throws, and what it
\* wrote to the console.
Returns(v, entry) == [threw |-> FALSE, value |-> v, log |-> <<entry>>]
Throws(v)         == [threw |-> TRUE,  value |-> v, log |-> << >>]
Passes(kind, v)   == [threw |-> kind = "error", value |-> v, log |-> << >>]

\* interceptors.request.use(config => { console.log(...); return config; })
OnRequest(config) ==
    Returns(config, [level |-> "log", tag |-> "API Request:",
                     args |-> <<"GET", config.url>>])

\* interceptors.response.use(response => { console.log(...); return response; }, ...)
OnResponse(response) ==
    Returns(response, [level |-> "log", tag |-> "API Response:",
                       args |-> <<response.status, response.config.url>>])

\* Mutant: the error handler logs and returns, so the call fulfils.
OnResponseError_Swallows(error) ==
    Returns(Undefined, [level |-> "error", tag |-> "API Response Error:",
                        args |-> <<error.message>>])

\* interceptors.response.use(..., error => { console.error(...);
\*                                           return Promise.reject(error); })
OnResponseError(error) ==
    IF error.t \in {"null", "undefined"}
    THEN Throws(ThrownTypeError)
    ELSE [threw |-> TRUE, value |-> error,
          log |-> <<[level |-> "error", tag |-> "API Response Error:",
                     args |-> <<IF error.hasResponse /\ error.hasData
                                THEN Obj("response.data")
                                ELSE error.message>>]>>]

\* The response interceptor applied to the transport's answer; without
\* interceptors the answer passes through.
Intercept(o, withInterceptors) ==
    IF ~withInterceptors THEN Passes(o.kind, o.value)
    ELSE IF o.kind = "response" THEN OnResponse(o.value)
    ELSE OnResponseError(o.value)

\* `const response = await apiClient.get(url); return response.data;`
\* a rejection is not caught and settles the service call.
ServiceResult(h) ==
    IF h.threw THEN [kind |-> "rejected", value |-> h.value]
    ELSE IF h.value = Undefined
    THEN [kind |-> "rejected", value |-> ThrownTypeError]
    ELSE [kind |-> "fulfilled", value |-> h.value.data]

\* The service builds its URL and calls apiClient.get: the request
\* interceptor runs and the config goes to the transport.
ClientCall(api, args, url) ==
    /\ nCalls = 0
    /\ call' = [api |-> api, args |-> args]
    /\ issuedUrl' = url
    /\ nCalls' = nCalls + 1
    /\ LET h == OnRequest(GetConfig(url))
       IN  /\ wire' = Append(wire, h.value)
           /\ console' = console \o h.log
    /\ UNCHANGED <<reply, settled, errVars, filterVars, hookVars, appVars, callerVars, uiVars>>

\* Mutant: a rejected request is sent once more before the call settles.
TransportReply_Retries(o) ==
    /\ wire # << >>
    /\ reply = NoReply
    /\ o \in TransportOutcomes(wire[Len(wire)])
    /\ LET h == Intercept(o, TRUE)
       IN  /\ console' = console \o h.log
           /\ IF h.threw /\ Len(wire) < 2
              THEN /\ wire' = Append(wire, wire[Len(wire)])
                   /\ UNCHANGED <<reply, settled, errVars>>
              ELSE /\ reply' = o
                   /\ settled' = ServiceResult(h)
                   /\ wire' = wire
                   /\ IF h.threw
                      THEN thrown' = h.value /\ handled' = handleApiError(h.value)
                      ELSE UNCHANGED errVars
    /\ UNCHANGED <<queryVars, filterVars, hookVars, appVars, callerVars, uiVars>>

\* The transport answers: the response interceptor runs, the service call
\* settles, and a rejection lands in the catch block of the hook, which
\* hands it to handleApiError.
TransportReply(o) ==
    /\ wire # << >>
    /\ reply = NoReply
    /\ o \in TransportOutcomes(wire[Len(wire)])
    /\ reply' = o
    /\ LET h == Intercept(o, TRUE)
       IN  /\ console' = console \o h.log
           /\ settled' = ServiceResult(h)
           /\ IF settled'.kind = "rejected"
              THEN thrown' = settled'.value /\ handled' = handleApiError(thrown')
              ELSE UNCHANGED errVars
    /\ UNCHANGED <<wire, queryVars, filterVars, hookVars, appVars, callerVars, uiVars>>

ClientSkills ==
    \E a \in SkillFilterArgs : ClientCall("skills", a, skillsApi_getAll(a))
ClientProjects ==
    \E a \in ProjectFilterArgs : ClientCall("projects", a, projectsApi_getAll(a))
ClientExperience ==
    \E a \in CurrentArgs : ClientCall("experience", a, experienceApi_getAll(a))
ClientEducation ==
    \E a \in CurrentArgs : ClientCall("education", a, educationApi_getAll(a))
ClientGet ==
    \E u \in {contactApi_get, aboutApi_get, portfolioApi_getSummary,
              portfolioApi_getStats} : ClientCall(u, NoArgs, u)

InitClient ==
    ClientIdle /\ QueryIdle /\ ErrIdle /\ FilterIdle /\ HookIdle /\ AppIdle /\ CallerIdle /\ UiIdle
NextClient ==
    \/ ClientSkills
    \/ ClientProjects
    \/ ClientExperience
    \/ ClientEducation
    \/ ClientGet
    \/ \E o \in TransportOutcomes(GetConfig(issuedUrl)) : TransportReply(o)
SpecClient == InitClient /\ [][NextClient]_vars

\* C19: the config that reaches the transport is the config the service
\* passed to apiClient.get; the service call settles exactly as it would
\* with no interceptor installed (fulfilled with the same body, or rejected
\* with the same error), for the answer received and for every answer the
\* transport could give; the interceptors add console entries, one per
\* request and one per answer, and nothing else.
C19_InterceptorsAreObservational ==
    /\ \A o \in TransportOutcomes(GetConfig(issuedUrl)) :
          /\ ServiceResult(Intercept(o, TRUE)) = ServiceResult(Intercept(o, FALSE))
          /\ Intercept(o, TRUE).value = o.value
          /\ Intercept(o, TRUE).threw = (o.kind = "error")
    /\ OnRequest(GetConfig(issuedUrl)).value = GetConfig(issuedUrl)
    /\ wire # << >> => wire = <<GetConfig(issuedUrl)>>
    /\ reply # NoReply =>
          /\ settled = ServiceResult(Intercept(reply, FALSE))
          /\ (settled.kind = "fulfilled") = (reply.kind = "response")
    /\ Len(console) = Len(wire) + (IF reply = NoReply THEN 0 ELSE 1)

\* C19 witness: the server answered with an error status and a body; the
\* error was logged and the call rejected with that same error.
C19_LoggedAndRejected ==
    /\ reply.kind = "error"
    /\ reply.value.hasResponse /\ reply.value.hasData
    /\ settled = [kind |-> "rejected", value |-> reply.value]
    /\ Len(console) = 2
    /\ console[1].level = "log"
    /\ console[2].level = "error"

\* C20: when the transport answers with an error, the service call rejects
\* with that very error and the hook's catch block receives it and hands
\* it to handleApiError; every service call puts exactly one request on
\* the wire, before and after the answer, whatever the answer is.
C20_ErrorsPropagateUnchanged ==
    /\ [](reply.kind = "error" =>
              /\ settled = [kind |-> "rejected", value |-> reply.value]
              /\ thrown = reply.value
              /\ handled = handleApiError(reply.value))
    /\ [](reply.kind = "response" => thrown = ErrIdleThrown /\ handled = NotYet)
    /\ [](Len(wire) = nCalls /\ nCalls <= 1)
    /\ [][Len(wire') # Len(wire) =>
              /\ nCalls' = nCalls + 1
              /\ wire' = Append(wire, GetConfig(issuedUrl'))]_vars

\* C20 witness: a network failure (no response) on GET /skills/ reached the
\* catch block unchanged after a single request.
C20_NetworkFailureReachesHook ==
    /\ call.api = "skills"
    /\ reply.kind = "error"
    /\ ~reply.value.hasResponse
    /\ thrown = reply.value
    /\ handled = Returned(reply.value.message)
    /\ Len(wire) = 1

(***************************************************************************)
(* Transport timeout: axios.create({ timeout: 10000 }).                    *)
(***************************************************************************)
\* The AxiosError the transport rejects with when a request has run for
\* the configured timeout: no response, and a message naming the duration.
TimeoutError ==
    MkThrown("object", FALSE, FALSE, Undefined, Undefined,
             Str("timeout of 10000ms exceeded"))

\* Mutant: a timed-out request is dropped and the hook keeps its state.
TimeOut_Cancels(r) ==
    /\ r \in inflight
    /\ state' = state
    /\ inflight' = inflight \ {r}
    /\ last' = MkStep("cancelled", r, FALSE, Undefined, state)
    /\ UNCHANGED <<env, hook, dep, pc, issued, rejections>>
    /\ UNCHANGED <<errVars, queryVars, filterVars, appVars, callerVars, clientVars, uiVars>>

\* Request r has run for the timeout: the awaited service call rejects
\* with TimeoutError and the hook's catch block runs as for any rejection.
TimeOut(r) ==
    /\ r \in inflight
    /\ LET res == handleApiError(TimeoutError)
       IN  IF res.threw
           THEN /\ state' = state
                /\ inflight' = inflight \ {r}
                /\ rejections' = rejections + 1
                /\ last' = MkStep("failure", r, TRUE, res.value, state)
           ELSE /\ state' = OnFailure(res.value)
                /\ inflight' = Observe(inflight \ {r}, state', FALSE)
                /\ rejections' = rejections
                /\ last' = MkStep("failure", r, FALSE, res.value, state)
    /\ UNCHANGED <<env, hook, dep, pc, issued>>
    /\ UNCHANGED <<errVars, queryVars, filterVars, appVars, callerVars, clientVars, uiVars>>

\* useAbout and useSkills over a transport that may also time out.
InitTimeout ==
    /\ env = "axios"
    /\ hook \in {"useAbout", "useSkills"}
    /\ dep \in HookDeps(hook)
    /\ state = InitialState
    /\ pc = "rendered"
    /\ inflight = {}
    /\ issued = 0
    /\ rejections = 0
    /\ last = NoStep
    /\ ErrIdle /\ QueryIdle /\ FilterIdle /\ AppIdle /\ CallerIdle /\ ClientIdle /\ UiIdle
NextTimeout ==
    \/ HookNext
    \/ \E r \in inflight : TimeOut(r)
SpecTimeout == InitTimeout /\ [][NextTimeout]_vars

Seqs(reqs) == { r.seq : r \in reqs }

\* C21: a request that times out is settled by the same catch block as any
\* other rejection: the hook ends in {loading: false, data: null, error:
\* the timeout error's message}; the hook's state never has a shape or a
\* flag other than {data, loading, error}; and a request leaves the set of
\* requests in flight only by settling (success or failure), one at a
\* time, never through mount, dependency change or refetch.
C21_TimeoutIsAFailure ==
    /\ [](DOMAIN state = {"data", "loading", "error"} /\ state.loading \in BOOLEAN)
    /\ [](last.op \notin StartOps \cup {"none"} => last.op \in SettleOps)
    /\ []((last.op = "failure" /\ last.value = TimeoutError.message) =>
              /\ ~last.threw
              /\ state = [data |-> Null, loading |-> FALSE,
                          error |-> Str("timeout of 10000ms exceeded")]
              /\ state = OnFailure(handleApiError(TimeoutError).value))
    /\ [][Seqs(inflight) # Seqs(inflight') =>
              \/ /\ last'.op \in StartOps
                 /\ Seqs(inflight') = Seqs(inflight) \cup {issued'}
                 /\ issued' = issued + 1
              \/ /\ last'.op \in SettleOps
                 /\ Seqs(inflight') = Seqs(inflight) \ {last'.seq}
                 /\ last'.seq \in Seqs(inflight)]_vars

\* C21 witness: the mount request timed out while the hook was loading and
\* the hook now holds the timeout message as its error.
C21_TimedOutWhileLoading ==
    /\ last.op = "failure"
    /\ last.wasLoading
    /\ last.value = Str("timeout of 10000ms exceeded")
    /\ state = OnFailure(Str("timeout of 10000ms exceeded"))
    /\ inflight = {}
    /\ issued = 1


\* C22: in every state of a hook data and error are never both non-null,
\* a non-null error comes with loading = false and data = null, and once no
\* request of the hook is in flight and the state is no longer the initial
\* one, loading = false.
C22_StateShape ==
    /\ ~(state.data # Null /\ state.error # Null)
    /\ (state.error # Null => ~state.loading /\ state.data = Null)
    /\ (inflight = {} /\ state # InitialState => ~state.loading)

\* C22 witness: a refetch made after a success has failed and nothing is in
\* flight: the hook holds the error alone, with loading = false.
C22_ErrorAloneAfterSuccess ==
    /\ last.op = "failure"
    /\ last.hadData
    /\ state.error # Null
    /\ state.data = Null
    /\ ~state.loading
    /\ inflight = {}


(***************************************************************************)
(* Hero, About and Skills over a service call that may reject with any     *)
(* object: every combination of response.data.message,                     *)
(* response.data.detail and message being absent, empty, a string or an    *)
(* object.                                                                 *)
(***************************************************************************)
ObjectErrors == { e \in ThrownValues : e.t = "object" }

\* The awaited service call rejects with the object e.
ViewFail(r, e) ==
    /\ r \in inflight
    /\ e \in ObjectErrors
    /\ LET res == handleApiError(e)
       IN  IF res.threw
           THEN /\ state' = state
                /\ inflight' = inflight \ {r}
                /\ rejections' = rejections + 1
                /\ last' = MkStep("failure", r, TRUE, res.value, state)
           ELSE /\ state' = OnFailure(res.value)
                /\ inflight' = Observe(inflight \ {r}, state', FALSE)
                /\ rejections' = rejections
                /\ last' = MkStep("failure", r, FALSE, res.value, state)
    /\ UNCHANGED <<env, hook, dep, pc, issued>>
    /\ UNCHANGED <<errVars, queryVars, filterVars, appVars, callerVars, clientVars, uiVars>>

\* useAbout() and useSkills() as Hero, About and Skills call them.
InitView ==
    /\ env = "axios"
    /\ hook \in {"useAbout", "useSkills"}
    /\ dep = MkDep(0, NoArgs)
    /\ state = InitialState
    /\ pc = "rendered"
    /\ inflight = {}
    /\ issued = 0
    /\ rejections = 0
    /\ last = NoStep
    /\ ErrIdle /\ QueryIdle /\ FilterIdle /\ AppIdle /\ CallerIdle /\ ClientIdle /\ UiIdle
NextView ==
    \/ MountEffect
    \/ Refetch
    \/ \E r \in inflight, d \in DataVals : Succeed(r, d)
    \/ \E r \in inflight, e \in ObjectErrors : ViewFail(r, e)
SpecView == InitView /\ [][NextView]_vars

\* C23: whichever branch of handleApiError is taken the value returned is
\* truthy, so in the state a failed fetch leaves behind the hook's error
\* passes `if (error)` and the component of that hook (Hero, About,
\* Skills) shows its error view, not the success view.
C23_FailedFetchShowsErrorView ==
    last.op = "failure" =>
        /\ ~last.threw
        /\ Truthy(last.value)
        /\ state.error = last.value
        /\ state.data = Null
        /\ \A c \in HookComponents :
              HookOf(c) = hook => HookedView(c, state).kind = "error"

\* C23 witness: the rejection carried no usable message field; the fourth
\* branch returned the fallback string and Skills shows its error view.
C23_FallbackShowsErrorView ==
    /\ last.op = "failure"
    /\ hook = "useSkills"
    /\ state.error = Str(FallbackMessage)
    /\ HookedView("Skills", state).kind = "error"

(***************************************************************************)
(* A hook whose caller passes the same dependency on every render, and     *)
(* calls refetch() now and then.                                           *)
(***************************************************************************)
StableHooks == {"useAbout", "useExperience", "useSkills"}

\* What the service call rejects with here: the API client's errors
\* without a response.
StableErrors ==
    { e \in Throwable(env) :
        ~e.hasResponse /\ e.message \in {Undefined, Str("Network Error")} }

\* refetch(): the memoised callback, called by the consumer at any time
\* after the mount effect; its setState schedules a render.
StableRefetch ==
    /\ pc \in {"mounted", "dirty"}
    /\ StartFetch("refetch", dep)
    /\ pc' = "dirty"
    /\ UNCHANGED <<errVars, queryVars, filterVars, appVars, callerVars, clientVars, uiVars>>

\* The awaited call rejects with e.  When handleApiError raises inside the
\* catch block no state is set and no render is scheduled.
StableFail(r, e) ==
    /\ r \in inflight
    /\ e \in StableErrors
    /\ LET res == handleApiError(e)
       IN  IF res.threw
           THEN /\ state' = state
                /\ inflight' = inflight \ {r}
                /\ rejections' = rejections + 1
                /\ last' = MkStep("failure", r, TRUE, res.value, state)
                /\ pc' = pc
           ELSE /\ state' = OnFailure(res.value)
                /\ inflight' = Observe(inflight \ {r}, state', FALSE)
                /\ rejections' = rejections
                /\ last' = MkStep("failure", r, FALSE, res.value, state)
                /\ RenderSettled
    /\ UNCHANGED <<env, hook, dep, issued>>
    /\ UNCHANGED <<errVars, queryVars, filterVars, appVars, callerVars, clientVars, uiVars>>

InitStable ==
    /\ env = "axios"
    /\ hook \in StableHooks
    /\ caller = "stable"
    /\ dep \in HookDeps(hook)
    /\ state = InitialState
    /\ pc = "rendered"
    /\ inflight = {}
    /\ issued = 0
    /\ rejections = 0
    /\ last = NoStep
    /\ ErrIdle /\ QueryIdle /\ FilterIdle /\ AppIdle /\ ClientIdle /\ UiIdle
StableSettle ==
    \/ \E r \in inflight : RenderSucceed(r, Obj("d1"))
    \/ \E r \in inflight : \E e \in StableErrors : StableFail(r, e)
NextStable ==
    \/ RenderEffect
    \/ Rerender
    \/ StableRefetch
    \/ StableSettle
SpecStable == InitStable /\ [][NextStable]_vars

\* React runs the pending effect and every scheduled render, and every
\* request in flight settles.
FairSpecStable ==
    /\ SpecStable
    /\ WF_<<pc, issued>>(EffectRuns)
    /\ WF_vars(Rerender)
    /\ WF_vars(StableSettle)

\* C24: with a stable dependency the hook issues one request on mount and
\* one per refetch() call and no other: a render that follows a state
\* update never schedules the fetch effect again; and, refetch() being
\* called finitely often and every request settling, the hook eventually
\* stays in a state with loading = false.
C24_OneFetchPerMountAndRefetch ==
    /\ [][ issued' # issued =>
               /\ issued' = issued + 1
               /\ \/ issued = 0 /\ pc = "rendered" /\ last'.op = "mount"
                  \/ issued > 0 /\ pc # "rendered" /\ last'.op = "refetch" ]_vars
    /\ [][ (pc = "dirty" /\ pc' # "dirty") =>
               pc' = "mounted" /\ issued' = issued /\ dep' = dep ]_vars
    /\ [](issued > 0 => pc # "rendered")
    /\ <>[](~state.loading)

\* C24 witness: a hook given one filter object on every render has issued
\* its mount request and one request per refetch() call, all have settled,
\* and it rests with loading = false and no effect or render pending.
C24_SettledAfterRefetches ==
    /\ dep.ref # 0
    /\ issued = MaxRequests
    /\ inflight = {}
    /\ ~state.loading
    /\ pc = "mounted"


(***************************************************************************)
(* useMultipleApiCalls: one loading flag and one error shared by every     *)
(* executeCalls(calls) of the instance.                                    *)
(*   multi.batches[k].calls[i]   state of the i-th promise of batch k      *)
(*   multi.batches[k].first      the first rejection among them (history)  *)
(*   multi.batches[k].overlapped another batch was pending during it       *)
(***************************************************************************)
MaxBatches  == 2   \* executeCalls invocations in a run
MaxPromises == 3   \* promises handed to executeCalls in a run, all batches together

\* The number of promises handed over so far.
RECURSIVE Promised(_)
Promised(batches) ==
    IF batches = << >> THEN 0
    ELSE Len(Head(batches).calls) + Promised(Tail(batches))

\* What a promise handed to executeCalls can reject with.
MultiErrors(e) ==
    IF e = "axios" THEN AppErrors
    ELSE AppErrors \cup { x \in AnyThrown : x.t = "undefined" }

NoRejection == [rejected |-> FALSE, reason |-> ErrIdleThrown]
Pending     == [kind |-> "pending", reason |-> ErrIdleThrown]

\* Mutant: the aggregate waits until every promise has settled.
PromiseAll_WaitsForAll(b) ==
    IF \E i \in 1..Len(b.calls) : b.calls[i] = "pending" THEN Pending
    ELSE IF b.first.rejected
         THEN [kind |-> "rejected", reason |-> b.first.reason]
         ELSE [kind |-> "fulfilled", reason |-> ErrIdleThrown]

\* Promise.all(calls): rejected with the first rejection as soon as one
\* promise rejects, fulfilled once every promise has fulfilled.
PromiseAll(b) ==
    IF b.first.rejected
    THEN [kind |-> "rejected", reason |-> b.first.reason]
    ELSE IF \A i \in 1..Len(b.calls) : b.calls[i] = "fulfilled"
         THEN [kind |-> "fulfilled", reason |-> ErrIdleThrown]
         ELSE Pending

\* Mutant: a batch that fulfils also clears the error.
AfterAwait_ClearsError(m, out) ==
    CASE out.kind = "fulfilled" -> [m EXCEPT !.loading = FALSE, !.error = Null]
      [] out.kind = "rejected"  ->
           LET res == handleApiError(out.reason)
           IN  IF res.threw THEN m
               ELSE [m EXCEPT !.error = res.value, !.loading = FALSE]
      [] OTHER -> m

\* executeCalls after its await: setLoading(false), or the catch block
\* setError(handleApiError(err)); setLoading(false).  When handleApiError
\* raises neither setter is reached.
AfterAwait(m, out) ==
    CASE out.kind = "fulfilled" -> [m EXCEPT !.loading = FALSE]
      [] out.kind = "rejected"  ->
           LET res == handleApiError(out.reason)
           IN  IF res.threw THEN m
               ELSE [m EXCEPT !.error = res.value, !.loading = FALSE]
      [] OTHER -> m

Raises(out) == out.kind = "rejected" /\ handleApiError(out.reason).threw

\* executeCalls(calls) with n pending promises: the two setters, then the
\* await; Promise.all of an empty array is fulfilled at once.
ExecuteCalls(n) ==
    /\ Len(multi.batches) < MaxBatches
    /\ n \in 0..(MaxPromises - Promised(multi.batches))
    /\ LET others == { k \in 1..Len(multi.batches) :
                          PromiseAll(multi.batches[k]).kind = "pending" }
           b      == [calls |-> [i \in 1..n |-> "pending"], first |-> NoRejection,
                      overlapped |-> others # {}]
           old    == [k \in 1..Len(multi.batches) |->
                        IF k \in others
                        THEN [multi.batches[k] EXCEPT !.overlapped = TRUE]
                        ELSE multi.batches[k]]
           begun  == [multi EXCEPT !.loading = TRUE, !.error = Null,
                                   !.batches = Append(old, b),
                                   !.last = [op |-> "execute", batch |-> Len(old) + 1,
                                             threw |-> FALSE]]
       IN  multi' = AfterAwait(begun, PromiseAll(b))
    /\ UNCHANGED <<header, hero>>
    /\ UNCHANGED <<errVars, queryVars, filterVars, hookVars, appVars, callerVars, clientVars>>

\* The i-th promise of batch k settles.  When this settles Promise.all the
\* rest of executeCalls runs.
PromiseSettles(k, i, st, e) ==
    /\ k \in 1..Len(multi.batches)
    /\ i \in 1..Len(multi.batches[k].calls)
    /\ multi.batches[k].calls[i] = "pending"
    /\ LET b      == multi.batches[k]
           b2     == [b EXCEPT !.calls[i] = st,
                               !.first = IF st = "rejected" /\ ~b.first.rejected
                                         THEN [rejected |-> TRUE, reason |-> e]
                                         ELSE @]
           before == PromiseAll(b)
           after  == PromiseAll(b2)
           m2     == [multi EXCEPT !.batches[k] = b2]
       IN  IF before.kind = "pending" /\ after.kind # "pending"
           THEN multi' = AfterAwait([m2 EXCEPT !.last = [op |-> "settled", batch |-> k,
                                                         threw |-> Raises(after)]],
                                    after)
           ELSE multi' = [m2 EXCEPT !.last = [op |-> "promise", batch |-> k,
                                              threw |-> FALSE]]
    /\ UNCHANGED <<header, hero>>
    /\ UNCHANGED <<errVars, queryVars, filterVars, hookVars, appVars, callerVars, clientVars>>

PromiseFulfils(k, i) == PromiseSettles(k, i, "fulfilled", ErrIdleThrown)
PromiseRejects(k, i) == \E e \in MultiErrors(env) : PromiseSettles(k, i, "rejected", e)

InitMulti ==
    /\ MultiIdle /\ HeaderIdle /\ HeroIdle
    /\ ErrIdle /\ QueryIdle /\ FilterIdle /\ HookIdle /\ AppIdle /\ CallerIdle /\ ClientIdle
NextMulti ==
    \/ \E n \in 0..MaxPromises : ExecuteCalls(n)
    \/ \E k \in 1..MaxBatches, i \in 1..MaxPromises : PromiseFulfils(k, i)
    \/ \E k \in 1..MaxBatches, i \in 1..MaxPromises : PromiseRejects(k, i)
\* Promises of API calls: they reject with the API client's errors.
SpecMulti == InitMulti /\ [][NextMulti]_vars

\* Promises that may reject with undefined as well.
InitMultiAny ==
    /\ MultiIdle /\ HeaderIdle /\ HeroIdle
    /\ env = "any" /\ hook = "useAbout" /\ state = InitialState
    /\ dep = MkDep(0, NoArgs) /\ pc = "rendered" /\ inflight = {}
    /\ issued = 0 /\ rejections = 0 /\ last = NoStep
    /\ ErrIdle /\ QueryIdle /\ FilterIdle /\ AppIdle /\ CallerIdle /\ ClientIdle
SpecMultiAny == InitMultiAny /\ [][NextMulti]_vars

AnyRejected(b) == \E i \in 1..Len(b.calls) : b.calls[i] = "rejected"
AnyPending(b)  == \E i \in 1..Len(b.calls) : b.calls[i] = "pending"

OutcomeError(b) ==
    IF PromiseAll(b).kind = "rejected" /\ ~Raises(PromiseAll(b))
    THEN handleApiError(b.first.reason).value
    ELSE Null

Settles(k) ==
    /\ k \in 1..Len(multi.batches)
    /\ PromiseAll(multi.batches[k]).kind = "pending"
    /\ PromiseAll(multi'.batches[k]).kind # "pending"

MaxScroll  == 13   \* window.scrollY ranges over 0, 100, ..., 100 * MaxScroll
MaxMissing == 2    \* at most so many of the six section elements are absent
ScrollOffset == 100

\* navItems.map(item => item.href.substring(1))
SectionOrder == <<"home", "about", "skills", "projects", "experience", "contact">>

\* Pages: section i starts at 200 * (i - 1) and is 200 high, or 300 high
\* when the sections overlap.
Layouts ==
    { l \in [exists : SUBSET Sections, overlap : BOOLEAN] :
        Cardinality(Sections \ l.exists) <= MaxMissing }
OffsetTop(l, i)    == 200 * (i - 1)
OffsetHeight(l, i) == IF l.overlap THEN 300 ELSE 200
ScrollPositions    == { 100 * k : k \in 0..MaxScroll }

\* The for loop of handleScroll from section i on: the first section whose
\* element exists and contains scrollPosition, else the current value.
RECURSIVE ScanSections(_, _, _, _)
ScanSections(i, l, scrollPosition, active) ==
    IF i > Len(SectionOrder) THEN active
    ELSE IF /\ SectionOrder[i] \in l.exists
            /\ scrollPosition >= OffsetTop(l, i)
            /\ scrollPosition < OffsetTop(l, i) + OffsetHeight(l, i)
         THEN SectionOrder[i]
         ELSE ScanSections(i + 1, l, scrollPosition, active)

\* The loop without its break: the last section that matches is set last.
RECURSIVE ScanAllSections(_, _, _, _)
ScanAllSections(i, l, scrollPosition, active) ==
    IF i > Len(SectionOrder) THEN active
    ELSE IF /\ SectionOrder[i] \in l.exists
            /\ scrollPosition >= OffsetTop(l, i)
            /\ scrollPosition < OffsetTop(l, i) + OffsetHeight(l, i)
         THEN ScanAllSections(i + 1, l, scrollPosition, SectionOrder[i])
         ELSE ScanAllSections(i + 1, l, scrollPosition, active)

\* Mutant: handleScroll without the break.
handleScroll_NoBreak(h) ==
    [h EXCEPT !.activeSection =
        ScanAllSections(1, h.layout, h.scrollY + ScrollOffset, @)]

handleScroll(h) ==
    [h EXCEPT !.activeSection =
        ScanSections(1, h.layout, h.scrollY + ScrollOffset, @)]

\* Mutant: the menu is closed only when the target element exists.
handleNavClick_OnlyIfFound(h, target) ==
    IF target \in h.layout.exists
    THEN [h EXCEPT !.isMobileMenuOpen = FALSE]
    ELSE h

\* handleNavClick(href): scrollIntoView on the target when it exists (the
\* smooth scroll arrives later, as scroll events), then the menu is closed.
handleNavClick(h, target) == [h EXCEPT !.isMobileMenuOpen = FALSE]

\* toggleMobileMenu: the handler of the committed render reads that
\* render's isMobileMenuOpen; React renders again before the next click.
toggleMobileMenu(h) == [h EXCEPT !.isMobileMenuOpen = ~h.isMobileMenuOpen]

HeaderStep(op, arg) == [op |-> op, arg |-> arg, wasOpen |-> header.isMobileMenuOpen]

\* The window scrolls to y; the listener runs when Header is mounted.
Scroll(y) ==
    /\ y \in ScrollPositions
    /\ y # header.scrollY
    /\ LET moved == [header EXCEPT !.scrollY = y, !.last = HeaderStep("scroll", "")]
       IN  header' = IF header.mounted THEN handleScroll(moved) ELSE moved
    /\ UNCHANGED <<multi, hero>>
    /\ UNCHANGED <<errVars, queryVars, filterVars, hookVars, appVars, callerVars, clientVars>>

ToggleMobileMenu ==
    /\ header.mounted
    /\ header' = toggleMobileMenu([header EXCEPT !.last = HeaderStep("toggle", "")])
    /\ UNCHANGED <<multi, hero>>
    /\ UNCHANGED <<errVars, queryVars, filterVars, hookVars, appVars, callerVars, clientVars>>

\* A click on the brand link ('#home') or on a navigation item.
NavClick(target) ==
    /\ header.mounted
    /\ target \in Sections
    /\ header' = handleNavClick([header EXCEPT !.last = HeaderStep("nav", target)], target)
    /\ UNCHANGED <<multi, hero>>
    /\ UNCHANGED <<errVars, queryVars, filterVars, hookVars, appVars, callerVars, clientVars>>

\* The effect's cleanup: window.removeEventListener('scroll', handleScroll).
HeaderUnmount ==
    /\ header.mounted
    /\ header' = [header EXCEPT !.mounted = FALSE, !.last = HeaderStep("unmount", "")]
    /\ UNCHANGED <<multi, hero>>
    /\ UNCHANGED <<errVars, queryVars, filterVars, hookVars, appVars, callerVars, clientVars>>

\* A new Header instance: useState(false), useState('home').
HeaderMount ==
    /\ ~header.mounted
    /\ header' = [header EXCEPT !.mounted = TRUE, !.isMobileMenuOpen = FALSE,
                                !.activeSection = "home",
                                !.last = HeaderStep("mount", "")]
    /\ UNCHANGED <<multi, hero>>
    /\ UNCHANGED <<errVars, queryVars, filterVars, hookVars, appVars, callerVars, clientVars>>

InitHeader ==
    /\ \E l \in Layouts :
          header = [mounted |-> TRUE, isMobileMenuOpen |-> FALSE,
                    activeSection |-> "home", layout |-> l, scrollY |-> 0,
                    last |-> NoHeaderStep]
    /\ MultiIdle /\ HeroIdle
    /\ ErrIdle /\ QueryIdle /\ FilterIdle /\ HookIdle /\ AppIdle /\ CallerIdle /\ ClientIdle
NextHeader ==
    \/ \E y \in ScrollPositions : Scroll(y)
    \/ ToggleMobileMenu
    \/ \E t \in Sections : NavClick(t)
    \/ HeaderUnmount
    \/ HeaderMount
SpecHeader == InitHeader /\ [][NextHeader]_vars

\* C27: the menu starts closed; a toggle flips isMobileMenuOpen, so that
\* two toggles in a row restore it; after a navigation click the menu is
\* closed, whatever it was before and whether or not the target element
\* exists; neither step changes activeSection.
C27_MenuFlag ==
    /\ [](header.last.op \in {"none", "mount"} =>
              ~header.isMobileMenuOpen /\ header.activeSection = "home")
    /\ [](header.last.op = "toggle" =>
              header.isMobileMenuOpen = ~header.last.wasOpen)
    /\ [](header.last.op = "nav" => ~header.isMobileMenuOpen)
    /\ [][ (header'.last.op \in {"toggle", "nav"} /\ header' # header) =>
              /\ header'.activeSection = header.activeSection
              /\ header'.scrollY = header.scrollY
              /\ header'.last.wasOpen = header.isMobileMenuOpen ]_vars
    /\ [][ (header.last.op = "toggle" /\ header'.last.op = "toggle") =>
              header'.isMobileMenuOpen = header.last.wasOpen ]_vars

\* C27 witness: the menu was open and a navigation item was clicked whose
\* section element does not exist: the menu is closed.
C27_ClosedWithoutTarget ==
    /\ header.last.op = "nav"
    /\ header.last.wasOpen
    /\ header.last.arg \notin header.layout.exists
    /\ ~header.isMobileMenuOpen

\* The sections whose element exists and contains position p.
Containing(l, p) ==
    { i \in 1..Len(SectionOrder) :
        /\ SectionOrder[i] \in l.exists
        /\ OffsetTop(l, i) <= p
        /\ p < OffsetTop(l, i) + OffsetHeight(l, i) }

\* C28: activeSection is always one of the six section ids and starts at
\* 'home'; a scroll event makes it the first section in navigation order
\* whose existing element contains scrollY + 100 and leaves it unchanged
\* when there is none; and once Header is unmounted a scroll changes
\* neither activeSection nor the menu flag.
C28_ActiveSection ==
    /\ [](header.activeSection \in Sections)
    /\ [](header.last.op \in {"none", "mount"} => header.activeSection = "home")
    /\ [][ (header.mounted /\ header'.scrollY # header.scrollY) =>
              LET hit == Containing(header.layout, header'.scrollY + 100)
              IN  IF hit = {}
                  THEN header'.activeSection = header.activeSection
                  ELSE \E i \in hit :
                          /\ \A j \in hit : i <= j
                          /\ header'.activeSection = SectionOrder[i] ]_vars
    /\ [][ ~header.mounted =>
              \/ header'.mounted
              \/ /\ header'.activeSection = header.activeSection
                 /\ header'.isMobileMenuOpen = header.isMobileMenuOpen ]_vars
    /\ [][ (header.mounted /\ ~header'.mounted) =>
              header'.activeSection = header.activeSection ]_vars

\* C28 witness: two existing sections contain the position and the earlier
\* one in navigation order is the active section.
C28_FirstOfTwoContaining ==
    /\ header.last.op = "scroll"
    /\ header.mounted
    /\ Cardinality(Containing(header.layout, header.scrollY + 100)) = 2
    /\ \E i \in Containing(header.layout, header.scrollY + 100) :
          /\ header.activeSection = SectionOrder[i]
          /\ i + 1 \in Containing(header.layout, header.scrollY + 100)


(***************************************************************************)
(* Hero: the rotating title.  Hero calls useAbout() and keeps currentText; *)
(* its effect starts a 3 s interval and its cleanup clears it.             *)
(*   hero.mounted  the interval is running                                 *)
(*   pc            "rendered" (effects pending), "mounted", "unmounted"    *)
(***************************************************************************)
animatedTexts ==
    <<"Full-Stack Developer", "React Specialist", "Django Expert",
      "Problem Solver", "Tech Enthusiast">>

\* The effects of the first commit: useAbout's fetch effect, then
\* setInterval(..., 3000).
HeroEffects ==
    /\ pc = "rendered"
    /\ ~hero.mounted
    /\ StartFetch("mount", dep)
    /\ pc' = "mounted"
    /\ hero' = [hero EXCEPT !.mounted = TRUE, !.last = "mount"]
    /\ UNCHANGED <<multi, header>>
    /\ UNCHANGED <<errVars, queryVars, filterVars, appVars, callerVars, clientVars>>

\* Mutant: the index is advanced without wrapping around.
Tick_NoWrap ==
    /\ hero.mounted
    /\ hero' = [hero EXCEPT !.currentText = @ + 1, !.last = "tick"]
    /\ UNCHANGED <<multi, header>>
    /\ UNCHANGED <<errVars, queryVars, filterVars, hookVars, appVars, callerVars, clientVars>>

\* The interval fires: setCurrentText(prev => (prev + 1) % animatedTexts.length)
Tick ==
    /\ hero.mounted
    /\ hero' = [hero EXCEPT !.currentText = (@ + 1) % Len(animatedTexts),
                            !.last = "tick"]
    /\ UNCHANGED <<multi, header>>
    /\ UNCHANGED <<errVars, queryVars, filterVars, hookVars, appVars, callerVars, clientVars>>

\* The request of useAbout settles while Hero is mounted.
HeroSettles ==
    /\ hero.mounted
    /\ \/ \E r \in inflight : Succeed(r, Obj("d1"))
       \/ \E r \in inflight : \E e \in RenderErrors : Fail(r, e)

\* Hero is unmounted: the cleanup runs clearInterval(interval); the request
\* in flight is left alone.
HeroUnmount ==
    /\ hero.mounted
    /\ hero' = [hero EXCEPT !.mounted = FALSE, !.last = "unmount"]
    /\ pc' = "unmounted"
    /\ UNCHANGED <<env, hook, state, dep, inflight, issued, rejections, last>>
    /\ UNCHANGED <<multi, header>>
    /\ UNCHANGED <<errVars, queryVars, filterVars, appVars, callerVars, clientVars>>

\* Hero is rendered again as a new instance: useState(0) and the hook's
\* initial state.
HeroRemount ==
    /\ pc = "unmounted"
    /\ issued < MaxRequests
    /\ hero' = [mounted |-> FALSE, currentText |-> 0, last |-> "render"]
    /\ pc' = "rendered"
    /\ state' = InitialState
    /\ UNCHANGED <<env, hook, dep, inflight, issued, rejections, last>>
    /\ UNCHANGED <<multi, header>>
    /\ UNCHANGED <<errVars, queryVars, filterVars, appVars, callerVars, clientVars>>

InitHero ==
    /\ HeroIdle /\ MultiIdle /\ HeaderIdle
    /\ ErrIdle /\ QueryIdle /\ FilterIdle /\ HookIdle /\ AppIdle /\ CallerIdle /\ ClientIdle
NextHero ==
    \/ HeroEffects
    \/ Tick
    \/ HeroSettles
    \/ HeroUnmount
    \/ HeroRemount
SpecHero == InitHero /\ [][NextHero]_vars

\* C29: currentText starts at 0 and is always a valid index of the five
\* animated texts; it changes only by a tick of the running timer, which
\* advances it by one modulo 5, or by Hero being rendered anew; while the
\* timer runs a tick is possible whatever the state of useAbout, and it
\* leaves that state alone; once Hero is unmounted currentText stays as it
\* is.
C29_RotatingTitle ==
    /\ [](Len(animatedTexts) = 5 /\ hero.currentText \in 0..4)
    /\ [](hero.last \in {"none", "render", "mount"} => hero.currentText = 0)
    /\ [][ hero'.currentText # hero.currentText =>
              \/ /\ hero.mounted /\ hero'.last = "tick"
                 /\ hero'.currentText = (hero.currentText + 1) % 5
              \/ /\ hero'.last = "render" /\ hero'.currentText = 0 ]_vars
    /\ [][ (hero.mounted /\ hero'.mounted) =>
              \/ /\ hero'.currentText = (hero.currentText + 1) % 5
                 /\ state' = state /\ inflight' = inflight
              \/ hero'.currentText = hero.currentText ]_vars
    /\ [](hero.mounted => ENABLED Tick)
    /\ [][ (pc = "unmounted" /\ pc' = "unmounted") =>
              hero'.currentText = hero.currentText ]_vars

\* C29 witness: the timer has ticked through to the last title while
\* useAbout is in its error state.
C29_TickWhileInError ==
    /\ hero.last = "tick"
    /\ hero.currentText = 4
    /\ ~state.loading
    /\ Truthy(state.error)

=============================================================================
